---- MODULE Spec2Model ----
(***************************************************************************)
(* A model of tplink-rs: the XOR stream cipher (crypto.rs), the TTL        *)
(* response cache (cache.rs), the single-exchange transport (proto.rs) and *)
(* the device handles that route commands through them (plug/hs100.rs,     *)
(* bulb/lb110.rs and the command modules).                                 *)
(***************************************************************************)
EXTENDS Integers, Sequences, FiniteSets, TLC

VARIABLES
    cin,      \* cipher: the byte sequence the cipher functions were first given
    cbuf,     \* cipher: the buffer after the functions applied so far
    cops,     \* cipher: the names of the functions applied so far, in order
    cache,    \* ResponseCache of the handle: NoCache, or store, ttl, hits, misses
    now,      \* the monotonic clock (Instant::now()), in ticks
    dev,      \* the state of the device at the other end of the socket
    last,     \* the last call made: its name, arguments, result and event log
    prev,     \* name and success of the call before the last one
    disc,     \* discover(): its position, the probes sent, the datagrams received,
              \* the responses kept and its result
    sock,     \* send_bytes seen from the network: the ports bound, the replies in
              \* flight, the exchange being made and what the last one returned
    conf      \* a ConfigBuilder: its fields, the setters called and the Config built

cipherVars == <<cin, cbuf, cops>>
handleVars == <<cache, now, dev, last, prev, disc, sock, conf>>
vars == <<cin, cbuf, cops, cache, now, dev, last, prev, disc, sock, conf>>

\* no discovery is running
NoDiscovery == [pc |-> "none"]

\* no exchange is watched
NoSocket == [pc |-> "none"]

\* no ConfigBuilder exists
NoBuilder == [pc |-> "none"]

(***************************************************************************)
(* Bounds                                                                  *)
(***************************************************************************)
\* longest byte sequence given to the cipher
MaxLen == 3
\* most cipher functions applied in a row to one input
MaxOps == 2
\* last tick of the clock
MaxTime == 2
\* longest TTL a cache is built with, in ticks
MaxTtl == 1
\* most lookups made on one cache (hits + misses)
MaxLookups == 2
\* most calls made on one handle, plug or bulb
MaxCalls == 2

\* the datagrams that arrive during one discovery
MaxArrivals == 3

\* the exchanges made one after another on one Proto
MaxExchanges == 3

\* the reads made through one cache while the clock runs
MaxReads == 3

\* the number of setters called on one builder
MaxSetters == 3

\* most calls made on one bulb handle when its setters are given any value
MaxSetterCalls == 2

\* most calls made on one bulb handle when its colour temperature is driven
MaxBulbCalls == 2

\* most calls made on one plug handle when only its relay and LED are driven
MaxPlugCalls == 3

\* The byte values the inputs are drawn from: both ends of the u8 range, the
\* initial key itself, the sign bit, and the letters of "hello".
ByteSample == {0, 1, 101, 104, 108, 111, 128, 171, 255}

RECURSIVE SeqsUpTo(_, _)
SeqsUpTo(S, n) ==
    IF n = 0 THEN {<<>>}
    ELSE LET shorter == SeqsUpTo(S, n - 1)
         IN  shorter \cup {Append(s, b) : s \in {t \in shorter : Len(t) = n - 1}, b \in S}

(***************************************************************************)
(* crypto.rs                                                               *)
(***************************************************************************)
INITIAL_KEY == 171

\* u8 ^ u8
RECURSIVE Xor(_, _)
Xor(a, b) ==
    IF a = 0 THEN b
    ELSE IF b = 0 THEN a
    ELSE (((a % 2) + (b % 2)) % 2) + 2 * Xor(a \div 2, b \div 2)

\* the map closure of encrypt, with the running key made explicit
RECURSIVE EncryptFrom(_, _)
EncryptFrom(key, bytes) ==
    IF bytes = <<>> THEN <<>>
    ELSE LET k == Xor(key, Head(bytes))
         IN  <<k>> \o EncryptFrom(k, Tail(bytes))

\* a cipher that forgets to chain: every byte is XOR'ed with the initial key
EncryptNoChain(bytes) == [i \in 1..Len(bytes) |-> Xor(INITIAL_KEY, bytes[i])]

\* a cipher whose key is the byte before, not the output before
EncryptPlainKey(bytes) ==
    [i \in 1..Len(bytes) |-> Xor(IF i = 1 THEN INITIAL_KEY ELSE bytes[i - 1], bytes[i])]

encrypt(bytes) == EncryptFrom(INITIAL_KEY, bytes)

\* the map closure of decrypt, with the running key made explicit
RECURSIVE DecryptFrom(_, _)
DecryptFrom(key, bytes) ==
    IF bytes = <<>> THEN <<>>
    ELSE <<Xor(Head(bytes), key)>> \o DecryptFrom(Head(bytes), Tail(bytes))

decrypt(bytes) == DecryptFrom(INITIAL_KEY, bytes)

\* a header with the least significant byte first
to_le_bytes(n) == <<n % 256, (n \div 256) % 256, (n \div 65536) % 256, (n \div 16777216) % 256>>

\* (num_bytes as u32).to_be_bytes(), for a length below 2^31
to_be_bytes(n) == <<(n \div 16777216) % 256, (n \div 65536) % 256, (n \div 256) % 256, n % 256>>

\* encrypt_with_header
encrypt_with_header(bytes) == to_be_bytes(Len(bytes)) \o encrypt(bytes)

\* bytes.iter().skip(n).copied().collect()
Skip(bytes, n) == IF Len(bytes) <= n THEN <<>> ELSE SubSeq(bytes, n + 1, Len(bytes))

\* a decryption that runs the key through the header and drops it afterwards
DecryptThenSkip(bytes) == Skip(decrypt(bytes), 4)

\* a decryption that gives up on a header that is not the length of the body
DecryptCheckingHeader(bytes) ==
    IF Len(bytes) >= 4 /\ SubSeq(bytes, 1, 4) = to_be_bytes(Len(bytes) - 4)
    THEN decrypt(Skip(bytes, 4))
    ELSE <<>>

\* decrypt_with_header
decrypt_with_header(bytes) == decrypt(Skip(bytes, 4))

(***************************************************************************)
(* The cipher functions applied to bounded inputs                          *)
(***************************************************************************)
InitCipher ==
    /\ cin \in SeqsUpTo(ByteSample, MaxLen)
    /\ cbuf = cin
    /\ cops = <<>>
    /\ cache = [on |-> FALSE]
    /\ now = 0
    /\ dev = [kind |-> "none"]
    /\ last = [op |-> "new"]
    /\ prev = [op |-> "new"]
    /\ disc = NoDiscovery
    /\ sock = NoSocket
    /\ conf = NoBuilder

ApplyEncrypt ==
    /\ Len(cops) < MaxOps
    /\ cbuf' = encrypt(cbuf)
    /\ cops' = Append(cops, "encrypt")
    /\ UNCHANGED <<cin, handleVars>>

ApplyDecrypt ==
    /\ Len(cops) < MaxOps
    /\ cbuf' = decrypt(cbuf)
    /\ cops' = Append(cops, "decrypt")
    /\ UNCHANGED <<cin, handleVars>>

NextCipher ==
    \/ ApplyEncrypt
    \/ ApplyDecrypt

SpecCipher == InitCipher /\ [][NextCipher]_vars

(***************************************************************************)
(* The four cipher functions applied to the inputs of the unit tests and   *)
(* to inputs with and without a header                                     *)
(***************************************************************************)
\* b"hello"
Hello == <<104, 101, 108, 108, 111>>

\* four bytes in the place of a header: the length of no body, of an empty
\* body, of a body of one byte, and bytes that are no small length at all
HeaderSample == {<<0, 0, 0, 0>>, <<0, 0, 0, 1>>, <<1, 0, 0, 0>>, <<255, 171, 0, 104>>}

\* the bodies put behind a header
BodySample == SeqsUpTo({0, 104, 171}, 2) \cup {encrypt(Hello)}

HeaderInputs ==
    SeqsUpTo(ByteSample, MaxLen) \cup {Hello}
    \cup {h \o c : h \in HeaderSample, c \in BodySample}

InitHeader ==
    /\ cin \in HeaderInputs
    /\ cbuf = cin
    /\ cops = <<>>
    /\ cache = [on |-> FALSE]
    /\ now = 0
    /\ dev = [kind |-> "none"]
    /\ last = [op |-> "new"]
    /\ prev = [op |-> "new"]
    /\ disc = NoDiscovery
    /\ sock = NoSocket
    /\ conf = NoBuilder

ApplyEncryptWithHeader ==
    /\ Len(cops) < MaxOps
    /\ cbuf' = encrypt_with_header(cbuf)
    /\ cops' = Append(cops, "encrypt_with_header")
    /\ UNCHANGED <<cin, handleVars>>

ApplyDecryptWithHeader ==
    /\ Len(cops) < MaxOps
    /\ cbuf' = decrypt_with_header(cbuf)
    /\ cops' = Append(cops, "decrypt_with_header")
    /\ UNCHANGED <<cin, handleVars>>

NextHeader ==
    \/ ApplyEncrypt
    \/ ApplyDecrypt
    \/ ApplyEncryptWithHeader
    \/ ApplyDecryptWithHeader

SpecHeader == InitHeader /\ [][NextHeader]_vars

\* C24: for every byte sequence b, decrypt_with_header(encrypt_with_header(b)) = b.
C24_HeaderRoundTrip ==
    cops = <<"encrypt_with_header", "decrypt_with_header">> => cbuf = cin

\* "hello" has been encrypted with a header and decrypted again
C24_Witness ==
    /\ cops = <<"encrypt_with_header", "decrypt_with_header">>
    /\ cin = <<104, 101, 108, 108, 111>>
    /\ cbuf = cin

\* the XOR of the initial key and the first i bytes
RECURSIVE RunningKey(_, _)
RunningKey(bytes, i) == IF i = 0 THEN 171 ELSE Xor(RunningKey(bytes, i - 1), bytes[i])

\* C25: encrypt(b) is as long as b and its i-th byte is 0xAB XOR b[1] XOR ... XOR
\* b[i]; encrypt("hello") = [195, 166, 202, 166, 201] and encrypt of the empty
\* sequence is empty.
C25_EncryptRunningKey ==
    cops = <<"encrypt">> =>
        /\ Len(cbuf) = Len(cin)
        /\ \A i \in 1..Len(cin) : cbuf[i] = RunningKey(cin, i)
        /\ cin = <<104, 101, 108, 108, 111>> => cbuf = <<195, 166, 202, 166, 201>>
        /\ cin = <<>> => cbuf = <<>>

\* "hello" has been encrypted
C25_Witness ==
    /\ cops = <<"encrypt">>
    /\ cin = <<104, 101, 108, 108, 111>>
    /\ cbuf = <<195, 166, 202, 166, 201>>

\* C26: encrypt_with_header(b) is four bytes that are the length of b, most
\* significant byte first, followed by encrypt(b); it is 4 bytes longer than b;
\* encrypt_with_header("hello") = [0, 0, 0, 5, 195, 166, 202, 166, 201].
C26_HeaderIsLength ==
    cops = <<"encrypt_with_header">> =>
        /\ Len(cbuf) = Len(cin) + 4
        /\ \A i \in 1..4 : cbuf[i] \in 0..255
        /\ cbuf[1] = 0
        /\ cbuf[2] * 65536 + cbuf[3] * 256 + cbuf[4] = Len(cin)
        /\ SubSeq(cbuf, 5, Len(cbuf)) = encrypt(cin)
        /\ cin = <<104, 101, 108, 108, 111>> => cbuf = <<0, 0, 0, 5, 195, 166, 202, 166, 201>>
        /\ cin = <<>> => cbuf = <<0, 0, 0, 0>>

\* an input of nine bytes has been encrypted with a header that ends in 9
C26_Witness ==
    /\ cops = <<"encrypt_with_header">>
    /\ Len(cin) = 9
    /\ SubSeq(cbuf, 1, 4) = <<0, 0, 0, 9>>

\* C27: decrypt_with_header drops the first 4 bytes without looking at them
\* and decrypts the rest: the result is decrypt of what follows the 4 bytes,
\* the same for every header put before one body, and it is empty for an
\* input shorter than 4 bytes.
C27_HeaderSkipped ==
    cops = <<"decrypt_with_header">> =>
        /\ Len(cin) < 4 => cbuf = <<>>
        /\ Len(cin) >= 4 =>
                /\ cbuf = decrypt([i \in 1..(Len(cin) - 4) |-> cin[i + 4]])
                /\ \A h \in HeaderSample :
                        decrypt_with_header(h \o [i \in 1..(Len(cin) - 4) |-> cin[i + 4]]) = cbuf

\* an input whose first four bytes are not the length of the rest has been
\* decrypted to "hello"
C27_Witness ==
    /\ cops = <<"decrypt_with_header">>
    /\ Len(cin) = 9
    /\ \A i \in 1..4 : cin[i] = <<255, 171, 0, 104>>[i]
    /\ cbuf = <<104, 101, 108, 108, 111>>

\* C1: for every byte sequence b, the empty one included, decrypt(encrypt(b)) = b
\* and encrypt(decrypt(b)) = b.
C1_RoundTrip ==
    /\ cops = <<"encrypt", "decrypt">> => cbuf = cin
    /\ cops = <<"decrypt", "encrypt">> => cbuf = cin

\* a full-length input that is not a fixed point of encrypt has been encrypted
\* and decrypted again
C1_Witness ==
    /\ cops = <<"encrypt", "decrypt">>
    /\ Len(cin) = MaxLen
    /\ encrypt(cin) # cin
    /\ cbuf = cin

(***************************************************************************)
(* serde_json::Value, and its byte encoding on the wire                    *)
(***************************************************************************)
JNull == [t |-> "null"]
JBool(b) == [t |-> "bool", b |-> b]
JNum(n) == [t |-> "num", n |-> n]
JStr(str) == [t |-> "str", s |-> str]
JArr(seq) == [t |-> "arr", a |-> seq]
JObj(map) == [t |-> "obj", m |-> map]

\* Option::None, for an optional value
NoValue == [t |-> "none"]

\* Every string of the protocol, in byte order. serde_json's Map is a BTreeMap,
\* so an object is written with its keys ascending in this order. The text of
\* a string is abbreviated on the wire to one byte, its rank in this table.
StrTable == <<
    "HS100", "IOT.SMARTBULB", "IOT.SMARTPLUGSWITCH", "KL120", "LB110", "LB120", "LB130", "Lamp", "R1", "TIM", "TIM:ENE", "act",
    "add_rule", "alias", "ap_list", "bind", "binded", "brightness", "children", "cnCloud",
    "color_temp", "count_down", "day_list", "delay", "delete_all_rules",
    "delete_rule", "dft_on_state", "edit_rule", "emeter", "enable",
    "erase_emeter_stat", "err_code", "feature", "get_daystat", "get_dimmer_parameters", "get_info",
    "get_intl_fw_list", "get_light_state", "get_monthstat", "get_realtime",
    "get_rules", "get_scaninfo", "get_sysinfo", "get_time", "get_timezone",
    "hour", "hue", "id", "index", "is_color", "is_dimmable",
    "is_variable_color_temp", "led_off", "light_state", "mday", "mic_type", "min", "model", "month",
    "name", "netif", "off", "on_off", "pass", "password", "reboot",
    "refresh", "relay_state", "reset", "rule_list", "saturation", "sec", "server",
    "set_led_off", "set_relay_state", "set_server_url",
    "smartlife.iot.common.cloud", "smartlife.iot.common.emeter",
    "smartlife.iot.common.system", "smartlife.iot.common.timesetting",
    "smartlife.iot.dimmer",
    "smartlife.iot.smartbulb.lightingservice", "state", "system", "time",
    "timeout", "timer", "transition_light_state", "type", "unbind", "url", "user", "username",
    "value", "year" >>

\* the inverse of StrTable, as an explicit function
RECURSIVE RankMap(_)
RankMap(n) == IF n = 0 THEN <<>> ELSE (StrTable[n] :> n) @@ RankMap(n - 1)

RankOf == RankMap(Len(StrTable))

Rank(str) == RankOf[str]

\* the keys of an object in the order they are written
RECURSIVE SortedKeys(_)
SortedKeys(S) ==
    IF S = {} THEN <<>>
    ELSE LET k == CHOOSE x \in S : \A y \in S : Rank(x) <= Rank(y)
         IN  <<k>> \o SortedKeys(S \ {k})

\* the decimal digits of a number, in ASCII
RECURSIVE Digits(_)
Digits(n) == IF n < 10 THEN <<48 + n>> ELSE Digits(n \div 10) \o <<48 + (n % 10)>>

\* "str": the quotes, and the text abbreviated to its rank
QuotedBytes(str) == <<34, 128 + Rank(str), 34>>

RECURSIVE JoinBytes(_)
JoinBytes(parts) ==
    IF parts = <<>> THEN <<>>
    ELSE IF Len(parts) = 1 THEN parts[1]
    ELSE parts[1] \o <<44>> \o JoinBytes(Tail(parts))

\* serde_json::to_vec: compact JSON text
RECURSIVE ToVec(_)
ToVec(v) ==
    CASE v.t = "none" -> <<110, 117, 108, 108>>
      [] v.t = "null" -> <<110, 117, 108, 108>>
      [] v.t = "bool" -> IF v.b THEN <<116, 114, 117, 101>> ELSE <<102, 97, 108, 115, 101>>
      [] v.t = "num" -> Digits(v.n)
      [] v.t = "str" -> QuotedBytes(v.s)
      [] v.t = "arr" -> <<91>> \o JoinBytes([i \in 1..Len(v.a) |-> ToVec(v.a[i])]) \o <<93>>
      [] v.t = "obj" ->
           LET ks == SortedKeys(DOMAIN v.m)
           IN  <<123>>
               \o JoinBytes([i \in 1..Len(ks) |-> QuotedBytes(ks[i]) \o <<58>> \o ToVec(v.m[ks[i]])])
               \o <<125>>

\* the value of the syntax error serde_json::from_slice reports
SyntaxError == [t |-> "syntax_error"]

\* impl Index<&str> for Value: Null unless the value is an object holding the key
Index(v, k) == IF v.t = "obj" /\ k \in DOMAIN v.m THEN v.m[k] ELSE JNull

\* impl IndexMut<&str> for Value, as value[k] reads it: Null becomes an empty
\* object, a missing key is inserted as Null, any other kind of value panics
CanIndexMut(v) == v.t \in {"obj", "null"}


(***************************************************************************)
(* proto.rs: Request                                                       *)
(***************************************************************************)
\* Request::new; arg is NoValue for None
Request(target, command, arg) == [target |-> target, command |-> command, arg |-> arg]

\* an equality that also compares the argument
RequestEqWithArg(a, b) == a.target = b.target /\ a.command = b.command /\ a.arg = b.arg

\* impl PartialEq for Request
RequestEq(a, b) == a.target = b.target /\ a.command = b.command

\* impl Hash for Request: what is fed to the hasher
RequestHash(r) == <<r.target, r.command>>

\* HashMap's test of a stored key against a looked-up key
KeyMatch(stored, key) == RequestHash(stored) = RequestHash(key) /\ RequestEq(stored, key)

(***************************************************************************)
(* cache.rs: Cache<Request, Value>                                         *)
(***************************************************************************)
\* ResponseCache = None
NoCache == [on |-> FALSE]

\* Cache::with_ttl
with_ttl(duration) ==
    [on |-> TRUE, store |-> {}, ttl |-> duration, hits |-> 0, misses |-> 0,
     hits_hi |-> 0, misses_hi |-> 0]

\* the entries of the store under a key (HashMap holds at most one)
Entries(c, key) == {e \in c.store : KeyMatch(e.key, key)}

\* Instant::elapsed
Elapsed(instant, t) == t - instant

\* hits: u32, misses: u32. A u32 is held as two 16-bit limbs: hits and misses
\* are the low limbs, hits_hi and misses_hi the high ones
LimbModulus == 65536

\* `+= 1` on a u32 <<hi, lo>> in a build without overflow checks
wrapping_inc(n) ==
    IF n[2] + 1 < LimbModulus THEN <<n[1], n[2] + 1>> ELSE <<(n[1] + 1) % LimbModulus, 0>>

\* u32::MAX
U32Max == <<LimbModulus - 1, LimbModulus - 1>>

\* a <= b on u32
U32Leq(a, b) == a[1] < b[1] \/ (a[1] = b[1] /\ a[2] <= b[2])

\* Cache::hits, Cache::misses
CacheHits(c) == <<c.hits_hi, c.hits>>
CacheMisses(c) == <<c.misses_hi, c.misses>>

\* self.hits += 1, self.misses += 1
BumpHits(c) ==
    [c EXCEPT !.hits = wrapping_inc(CacheHits(c))[2], !.hits_hi = wrapping_inc(CacheHits(c))[1]]
BumpMisses(c) ==
    [c EXCEPT !.misses = wrapping_inc(CacheMisses(c))[2],
              !.misses_hi = wrapping_inc(CacheMisses(c))[1]]

\* an expiry test that lets an entry live one tick too long
CacheStatusInclusive(c, key, t) ==
    IF Entries(c, key) = {} THEN "NotFound"
    ELSE LET e == CHOOSE x \in Entries(c, key) : TRUE
         IN  IF Elapsed(e.at, t) <= c.ttl THEN "Found" ELSE "Expired"

\* a status block that never finds an entry expired
CacheStatusNoExpiry(c, key, t) ==
    IF Entries(c, key) = {} THEN "NotFound" ELSE "Found"

\* Cache::get, the status block
CacheStatus(c, key, t) ==
    IF Entries(c, key) = {} THEN "NotFound"
    ELSE LET e == CHOOSE x \in Entries(c, key) : TRUE
         IN  IF Elapsed(e.at, t) < c.ttl THEN "Found" ELSE "Expired"

\* a get that leaves the expired entry in the store
CacheGetNoEvict(c, key, t) ==
    LET status == CacheStatus(c, key, t)
    IN  CASE status = "NotFound" ->
               [c |-> BumpMisses(c), val |-> NoValue]
          [] status = "Found" ->
               [c |-> BumpHits(c),
                val |-> (CHOOSE x \in Entries(c, key) : TRUE).val]
          [] status = "Expired" ->
               [c |-> BumpMisses(c), val |-> NoValue]

\* a get that also sweeps every entry that has reached the TTL out of the store
CacheGetSweeping(c, key, t) ==
    LET Swept(g) == [c |-> [g.c EXCEPT !.store = {e \in @ : Elapsed(e.at, t) < c.ttl}],
                     val |-> g.val]
    IN  Swept(CacheGetNoEvict(c, key, t))

\* Cache::get: the cache afterwards and the value returned (NoValue for None)
CacheGet(c, key, t) ==
    LET status == CacheStatus(c, key, t)
    IN  CASE status = "NotFound" ->
               [c |-> BumpMisses(c), val |-> NoValue]
          [] status = "Found" ->
               [c |-> BumpHits(c),
                val |-> (CHOOSE x \in Entries(c, key) : TRUE).val]
          [] status = "Expired" ->
               [c |-> [BumpMisses(c) EXCEPT !.store = @ \ Entries(c, key)],
                val |-> NoValue]

\* an insert that keeps an existing entry
CacheInsertKeepOld(c, key, value, t) ==
    IF Entries(c, key) = {}
    THEN [c EXCEPT !.store = @ \cup {[key |-> key, at |-> t, val |-> value]}]
    ELSE c

\* Cache::insert: HashMap::insert replaces the value of an equal key and keeps
\* the key that is stored; the entry is stamped Instant::now()
CacheInsert(c, key, value, t) ==
    IF Entries(c, key) = {}
    THEN [c EXCEPT !.store = @ \cup {[key |-> key, at |-> t, val |-> value]}]
    ELSE LET e == CHOOSE x \in Entries(c, key) : TRUE
         IN  [c EXCEPT !.store = (@ \ {e}) \cup {[key |-> e.key, at |-> t, val |-> value]}]

\* Cache::remove
CacheRemove(c, key) == [c EXCEPT !.store = @ \ Entries(c, key)]

\* Cache::retain; kept is the set of entries the predicate f holds of
CacheRetain(c, kept) == [c EXCEPT !.store = {e \in @ : e \in kept}]

\* Cache::clear
CacheClear(c) == [c EXCEPT !.store = {}]

\* Cache::len
CacheLen(c) == Cardinality(c.store)

\* an invalidation that drops every namespace
RetainNone(c, ns) == CacheRetain(c, {})

\* an invalidation that drops nothing
RetainAll(c, ns) == CacheRetain(c, c.store)

\* retain(|k, _| k.target != ns), the invalidation every mutating command makes
RetainOtherTargets(c, ns) == CacheRetain(c, {e \in c.store : e.key.target # ns})

\* Result<V>
Ok(v) == [ok |-> TRUE, v |-> v]
Err(kind) == [ok |-> FALSE, err |-> kind]


(***************************************************************************)
(* The world a call runs in: the handle's cache, the device, the clock and *)
(* the log of what the call did, in the order it did it                    *)
(***************************************************************************)
\* net holds the fate of the exchanges still to come, sent the datagrams handed
\* to the socket so far
World(c, d, t) == [cache |-> c, dev |-> d, now |-> t, net |-> <<>>, sent |-> <<>>, log |-> <<>>]

Emit(w, ev) == [w EXCEPT !.log = Append(@, ev)]

\* the (target, command) pairs the store holds
CachedKeys(c) == {RequestHash(e.key) : e \in c.store}

\* a miss arm that caches a placeholder when the producer fails
OnProducedInsertsOnError(key, p) ==
    IF ~p.res.ok
    THEN [w |-> Emit([p.w EXCEPT !.cache = CacheInsert(@, key, JNull, p.w.now)],
                     [e |-> "insert", key |-> RequestHash(key)]),
          res |-> p.res]
    ELSE [w |-> Emit([p.w EXCEPT !.cache = CacheInsert(@, key, p.res.v, p.w.now)],
                     [e |-> "insert", key |-> RequestHash(key)]),
          res |-> Ok(p.res.v)]

\* a miss arm that returns the produced value without storing it
OnProducedNoInsert(key, p) ==
    IF ~p.res.ok
    THEN [w |-> p.w, res |-> p.res]
    ELSE [w |-> p.w, res |-> Ok(p.res.v)]

\* Cache::get_or_insert_with, the None arm once the producer has returned p:
\* `?` hands a failure back, a value is inserted and then returned
OnProduced(key, p) ==
    IF ~p.res.ok
    THEN [w |-> p.w, res |-> p.res]
    ELSE [w |-> Emit([p.w EXCEPT !.cache = CacheInsert(@, key, p.res.v, p.w.now)],
                     [e |-> "insert", key |-> RequestHash(key)]),
          res |-> Ok(p.res.v)]

\* Cache::get_or_insert_with, the world once self.get(&key) has returned
AfterGet(w, key) ==
    LET g == CacheGet(w.cache, key, w.now)
    IN  Emit([w EXCEPT !.cache = g.c],
             [e |-> "get", key |-> RequestHash(key), hit |-> g.val # NoValue])

\* Cache::get_or_insert_with; produced is what the producer f leaves and returns
\* when it is invoked in the world AfterGet(w, key), and counts on a miss only
GetOrInsertWith(w, key, produced) ==
    LET g == CacheGet(w.cache, key, w.now)
    IN  IF g.val # NoValue
        THEN [w |-> AfterGet(w, key), res |-> Ok(g.val)]
        ELSE OnProduced(key, produced)

\* how many events of one kind a log holds
CountEvents(log, kind) == Cardinality({i \in 1..Len(log) : log[i].e = kind})

(***************************************************************************)
(* The cache driven directly, as its callers and tests drive it            *)
(***************************************************************************)
\* json!({ "month": month, "year": year })
MonthYear(month, year) == JObj([month |-> JNum(month), year |-> JNum(year)])

Month(m) == MonthYear(m, 2020)

KeySample == {Request("system", "get_sysinfo", NoValue),
              Request("emeter", "get_realtime", NoValue),
              Request("emeter", "get_daystat", Month(1))}

NsSample == {"system", "emeter"}

ValSample == {JNum(1), JNum(2)}

\* what a producer can return
ProducerResults == {Ok(v) : v \in ValSample} \cup {Err("Io"), Err("Json")}

InitCache ==
    /\ cin = <<>>
    /\ cbuf = <<>>
    /\ cops = <<>>
    /\ \E ttl \in 0..MaxTtl : cache = with_ttl(ttl)
    /\ now = 0
    /\ dev = [kind |-> "none"]
    /\ last = [op |-> "new"]
    /\ prev = [op |-> "new"]
    /\ disc = NoDiscovery
    /\ sock = NoSocket
    /\ conf = NoBuilder

Tick ==
    /\ now < MaxTime
    /\ now' = now + 1
    /\ UNCHANGED <<cipherVars, disc, sock, conf, cache, dev, last, prev>>

\* the counters of a cache that has been in use for long: u32::MAX - 1
CounterStart == <<LimbModulus - 1, LimbModulus - 2>>

\* the lookups a counter shows since it stood at 0 or at CounterStart
Since(n) == IF n >= CounterStart[2] THEN n - CounterStart[2] ELSE n
Lookups(c) == Since(c.hits) + Since(c.misses)

\* the lookup of the key finds the counter it bumps at u32::MAX
Overflows(c, key, t) ==
    IF CacheStatus(c, key, t) = "Found" THEN CacheHits(c) = U32Max
    ELSE CacheMisses(c) = U32Max

\* a build with overflow checks panics in `self.hits += 1` and `self.misses += 1`
\* at u32::MAX, before the cache is touched; a build without them wraps
DoGet(key) ==
    /\ Lookups(cache) < MaxLookups
    /\ LET Returns ==
               LET g == CacheGet(cache, key, now)
               IN  /\ cache' = g.c
                   /\ last' = [op |-> "get", key |-> key, res |-> g.val,
                                len0 |-> CacheLen(cache)]
       IN  IF Overflows(cache, key, now)
           THEN \E checked \in BOOLEAN :
                   IF checked
                   THEN /\ cache' = cache
                        /\ last' = [op |-> "panic", key |-> key]
                   ELSE Returns
           ELSE Returns
    /\ UNCHANGED <<cipherVars, disc, sock, conf, now, dev, prev>>

DoInsert(key, value) ==
    /\ cache' = CacheInsert(cache, key, value, now)
    /\ last' = [op |-> "insert", key |-> key, res |-> value,
                 over |-> \E e \in Entries(cache, key) : e.val # value]
    /\ UNCHANGED <<cipherVars, disc, sock, conf, now, dev, prev>>

DoRemove(key) ==
    /\ cache' = CacheRemove(cache, key)
    /\ last' = [op |-> "remove", key |-> key]
    /\ UNCHANGED <<cipherVars, disc, sock, conf, now, dev, prev>>

DoRetain(ns) ==
    /\ cache' = RetainOtherTargets(cache, ns)
    /\ last' = [op |-> "retain", ns |-> ns, len0 |-> CacheLen(cache)]
    /\ UNCHANGED <<cipherVars, disc, sock, conf, now, dev, prev>>

DoClear ==
    /\ cache' = CacheClear(cache)
    /\ last' = [op |-> "clear"]
    /\ UNCHANGED <<cipherVars, disc, sock, conf, now, dev, prev>>

DoGetOrInsertWith(key, fres) ==
    /\ Lookups(cache) < MaxLookups
    /\ LET Returns ==
               LET w0 == World(cache, dev, now)
                   r == GetOrInsertWith(w0, key,
                            [w |-> Emit(AfterGet(w0, key),
                                        [e |-> "produce", key |-> RequestHash(key)]),
                             res |-> fres])
               IN  /\ cache' = r.w.cache
                   /\ last' = [op |-> "get_or_insert_with", key |-> key, res |-> r.res,
                                log |-> r.w.log, t |-> now]
       IN  IF Overflows(cache, key, now)
           THEN \E checked \in BOOLEAN :
                   IF checked
                   THEN /\ cache' = cache
                        /\ last' = [op |-> "panic", key |-> key]
                   ELSE Returns
           ELSE Returns
    /\ UNCHANGED <<cipherVars, disc, sock, conf, now, dev, prev>>

NextCache ==
    \/ Tick
    \/ \E key \in KeySample : DoGet(key)
    \/ \E key \in KeySample, value \in ValSample : DoInsert(key, value)
    \/ \E key \in KeySample : DoRemove(key)
    \/ \E ns \in NsSample : DoRetain(ns)
    \/ DoClear
    \/ \E key \in KeySample, fres \in ProducerResults : DoGetOrInsertWith(key, fres)

SpecCache == InitCache /\ [][NextCache]_vars

(***************************************************************************)
(* A read through the cache with the clock running: the producer blocks in *)
(* the exchange, and time passes between the moment the reply is received  *)
(* and the moment insert reads Instant::now()                              *)
(***************************************************************************)
\* what the device reports in a reply received at time t: its reading of t
Reading(t) == JNum(t)

\* the time at which a reading was received
ReceivedAt(value) == value.n

\* get_or_insert_with up to the return of the Some arm, or up to the call
\* of the producer in the None arm
ReadCall(key) ==
    /\ last.op \notin {"fetching", "received"}
    /\ Lookups(cache) < MaxReads
    /\ LET g == CacheGet(cache, key, now)
       IN  /\ cache' = g.c
           /\ last' = IF g.val # NoValue
                      THEN [op |-> "hit", key |-> key, res |-> Ok(g.val), t |-> now]
                      ELSE [op |-> "fetching", key |-> key, t |-> now]
    /\ UNCHANGED <<cipherVars, disc, sock, conf, now, dev, prev>>

\* the producer returns: the exchange has received a reply, or has failed
Receive ==
    /\ last.op = "fetching"
    /\ \E res \in {Ok(Reading(now)), Err("Io")} :
          last' = [op |-> "received", key |-> last.key, res |-> res, t |-> last.t]
    /\ UNCHANGED <<cipherVars, disc, sock, conf, cache, now, dev, prev>>

\* the None arm once the producer has returned
Store ==
    /\ last.op = "received"
    /\ LET r == OnProduced(last.key, [w |-> World(cache, dev, now), res |-> last.res])
       IN  /\ cache' = r.w.cache
           /\ last' = [op |-> "miss", key |-> last.key, res |-> r.res, t |-> last.t]
    /\ UNCHANGED <<cipherVars, disc, sock, conf, now, dev, prev>>

NextStaleness ==
    \/ Tick
    \/ \E key \in KeySample : ReadCall(key)
    \/ Receive
    \/ Store

SpecStaleness == InitCache /\ [][NextStaleness]_vars

\* a cache that has answered CounterStart hits and CounterStart misses since
\* it was built, and is empty at the moment
InitCounters ==
    /\ cin = <<>>
    /\ cbuf = <<>>
    /\ cops = <<>>
    /\ cache = [with_ttl(MaxTtl) EXCEPT !.hits = CounterStart[2], !.hits_hi = CounterStart[1],
                                        !.misses = CounterStart[2],
                                        !.misses_hi = CounterStart[1]]
    /\ now = MaxTime - 1
    /\ dev = [kind |-> "none"]
    /\ last = [op |-> "new"]
    /\ prev = [op |-> "new"]
    /\ disc = NoDiscovery
    /\ sock = NoSocket
    /\ conf = NoBuilder

SpecCounters == InitCounters /\ [][NextCache]_vars


\* whether the store holds an entry for the key that is younger than the TTL
HasFresh(c, key, t) == \E e \in c.store : RequestEq(e.key, key) /\ t - e.at < c.ttl

\* whether the store holds an entry for the key that has reached the TTL
HasExpired(c, key, t) == \E e \in c.store : RequestEq(e.key, key) /\ t - e.at >= c.ttl

\* C2: get(k) returns the stored value if and only if an entry for k exists and
\* less than the TTL has elapsed since its insertion; on an entry that has reached
\* the TTL it returns none, adds one to misses and removes the entry, so that
\* len() goes down by one.
C2_GetTtl ==
    [][\A key \in KeySample : (last'.op = "get" /\ DoGet(key)) =>
          /\ (last'.res # NoValue) <=> HasFresh(cache, key, now)
          /\ \A e \in cache.store :
                (RequestEq(e.key, key) /\ now - e.at < cache.ttl) => last'.res = e.val
          /\ HasExpired(cache, key, now) =>
                /\ last'.res = NoValue
                /\ cache'.misses = cache.misses + 1
                /\ cache'.hits = cache.hits
                /\ ~\E e \in cache'.store : RequestEq(e.key, key)
                /\ CacheLen(cache') = CacheLen(cache) - 1]_vars

\* a get has just evicted an entry that had reached a positive TTL
C2_Witness ==
    /\ last.op = "get"
    /\ last.res = NoValue
    /\ cache.ttl > 0
    /\ last.len0 = CacheLen(cache) + 1
    /\ cache.misses >= 1

\* C4: retain with the predicate key.namespace != n removes every entry whose
\* namespace is n, whatever its command, leaves every entry of another namespace
\* as it was (same value, same insertion time) and changes neither counter.
C4_InvalidationScope ==
    [][\A ns \in NsSample : (last'.op = "retain" /\ DoRetain(ns)) =>
          /\ \A e \in cache.store : e.key.target = ns => e \notin cache'.store
          /\ \A e \in cache.store : e.key.target # ns => e \in cache'.store
          /\ cache'.store \subseteq cache.store
          /\ cache'.hits = cache.hits
          /\ cache'.misses = cache.misses]_vars

\* a retain has removed two entries of one namespace and kept an entry of another
C4_Witness ==
    /\ last.op = "retain"
    /\ last.len0 = CacheLen(cache) + 2
    /\ cache.store # {}
    /\ \A e \in cache.store : e.key.target # last.ns

\* The clauses of C8 that hold whatever the TTL: on an unexpired entry the cached
\* value is returned, the producer is not invoked and the store is unchanged;
\* otherwise the producer is invoked exactly once and a produced value is stored
\* under k, stamped with the time of the call, and returned.
C8_Body(key, fres) ==
    /\ HasFresh(cache, key, now) =>
          /\ CountEvents(last'.log, "produce") = 0
          /\ \E e \in cache.store : RequestEq(e.key, key) /\ last'.res = Ok(e.val)
          /\ cache'.store = cache.store
    /\ ~HasFresh(cache, key, now) =>
          /\ CountEvents(last'.log, "produce") = 1
          /\ fres.ok =>
                /\ last'.res = fres
                /\ \E e \in cache'.store :
                      RequestEq(e.key, key) /\ e.val = fres.v /\ e.at = now
                /\ last'.log[Len(last'.log)].e = "insert"

\* C8 as amended: get_or_insert_with(k, producer) returns the cached value of an
\* unexpired entry without invoking the producer and leaves the store unchanged;
\* when k is absent or expired it invokes the producer exactly once and, on
\* success, stores the produced value under k before returning it, so that a
\* following lookup of k made less than the TTL later is a hit returning the same
\* value (with a TTL of zero no lookup is ever a hit).
C8_GetOrInsertWith ==
    [][\A key \in KeySample, fres \in ProducerResults :
          (last'.op = "get_or_insert_with" /\ DoGetOrInsertWith(key, fres)) =>
          /\ C8_Body(key, fres)
          /\ (~HasFresh(cache, key, now) /\ fres.ok) =>
                \A t \in now..MaxTime :
                    t - now < cache.ttl => CacheGet(cache', key, t).val = fres.v]_vars

\* a miss has invoked the producer once and stored its value, and a lookup now
\* would be a hit returning it
C8_Witness ==
    /\ last.op = "get_or_insert_with"
    /\ last.res.ok
    /\ CountEvents(last.log, "produce") = 1
    /\ last.t = now
    /\ cache.ttl > 0
    /\ CacheGet(cache, last.key, now).val = last.res.v

\* C8 as stated: as C8 above, but the lookup that immediately follows a successful
\* miss is a hit returning the same value, whatever the TTL.
C8_Original ==
    [][\A key \in KeySample, fres \in ProducerResults :
          (last'.op = "get_or_insert_with" /\ DoGetOrInsertWith(key, fres)) =>
          /\ C8_Body(key, fres)
          /\ (~HasFresh(cache, key, now) /\ fres.ok) =>
                CacheGet(cache', key, now').val = fres.v]_vars

\* C9: when the producer fails, the failure is returned unchanged, the store holds
\* no entry for the key afterwards (so the next lookup is a miss) and the entries
\* under every other key are unchanged.
C9_ProducerFailure ==
    [][\A key \in KeySample, fres \in ProducerResults :
          (/\ last'.op = "get_or_insert_with"
           /\ ~fres.ok
           /\ ~HasFresh(cache, key, now)
           /\ DoGetOrInsertWith(key, fres)) =>
              /\ last'.res = fres
              /\ ~\E e \in cache'.store : RequestEq(e.key, key)
              /\ \A t \in now..MaxTime : CacheGet(cache', key, t).val = NoValue
              /\ \A e \in cache.store : ~RequestEq(e.key, key) => e \in cache'.store
              /\ cache'.store \subseteq cache.store]_vars

\* a producer has failed on a miss while another key's entry was in the store
C9_Witness ==
    /\ last.op = "get_or_insert_with"
    /\ ~last.res.ok
    /\ CountEvents(last.log, "produce") = 1
    /\ cache.store # {}
    /\ ~\E e \in cache.store : RequestEq(e.key, last.key)


\* C21: an insert leaves exactly one entry for its key, holding the inserted
\* value and stamped with the current time, whatever entry it replaced; every
\* other entry is as it was; the length grows by one exactly when the key was
\* absent; and a get of the key at any time less than the TTL after the insert
\* returns the inserted value.
C21_InsertOverwrites ==
    [][\A key \in KeySample, value \in ValSample :
          (last'.op = "insert" /\ DoInsert(key, value)) =>
              /\ \E e \in cache'.store :
                    /\ Entries(cache', key) = {e}
                    /\ e.val = value
                    /\ e.at = now
              /\ cache'.store \ Entries(cache', key) = cache.store \ Entries(cache, key)
              /\ CacheLen(cache') = CacheLen(cache) + (IF Entries(cache, key) = {} THEN 1 ELSE 0)
              /\ \A t \in now..MaxTime :
                    t - now < cache.ttl => CacheGet(cache', key, t).val = value]_vars

\* an insert has just replaced an entry that had reached a positive TTL and held
\* another value
C21_Witness ==
    /\ last.op = "insert"
    /\ cache.ttl > 0
    /\ last.over
    /\ CacheGet(cache, last.key, now).val = last.res

\* C22: no call on a cache lowers hits() or misses().
C22_Original ==
    [][/\ U32Leq(CacheHits(cache), CacheHits(cache'))
       /\ U32Leq(CacheMisses(cache), CacheMisses(cache'))]_vars

\* what holds of the counters: only a lookup changes them, by one step of u32
\* arithmetic on the counter of its outcome; insert, remove, retain and clear
\* leave both as they are, and the eviction of an expired entry leaves hits()
CountersStep ==
    [][/\ CacheHits(cache') \in {CacheHits(cache), wrapping_inc(CacheHits(cache))}
       /\ CacheMisses(cache') \in {CacheMisses(cache), wrapping_inc(CacheMisses(cache))}
       /\ last'.op \in {"insert", "remove", "retain", "clear", "panic"} =>
              CacheHits(cache') = CacheHits(cache) /\ CacheMisses(cache') = CacheMisses(cache)
       /\ cache'.store # cache.store => CacheHits(cache') = CacheHits(cache)
      ]_vars

(***************************************************************************)
(* The device at the other end of the socket. It is the environment of the *)
(* library: it applies the command of every datagram that reaches it and   *)
(* answers with {target: {command: result}}. No other controller acts on   *)
(* it.                                                                     *)
(***************************************************************************)
\* the namespaces the handles are built with
SYSINFO_NS == "system"
TIMER_NS == "count_down"
LIGHTING_NS == "smartlife.iot.smartbulb.lightingservice"
CloudNs(kind) == IF kind = "plug" THEN "cnCloud" ELSE "smartlife.iot.common.cloud"
EmeterNs(kind) == IF kind = "plug" THEN "emeter" ELSE "smartlife.iot.common.emeter"
SystemNs(kind) == IF kind = "plug" THEN "system" ELSE "smartlife.iot.common.system"
TimeNs(kind) == IF kind = "plug" THEN "time" ELSE "smartlife.iot.common.timesetting"

\* what a device answers to a command that returns no data
ErrCode0 == JObj([err_code |-> JNum(0)])

\* a plug as it leaves the factory; feature is "TIM" or "TIM:ENE"
NewPlug(feature) ==
    [kind |-> "plug", relay_state |-> 0, led_off |-> 0, feature |-> feature,
     rules |-> 0, binded |-> 0]

\* a bulb as it leaves the factory
NewBulb(model, on_off) ==
    [kind |-> "bulb", model |-> model, on_off |-> on_off, hue |-> 0, saturation |-> 0,
     brightness |-> 100, color_temp |-> 2700, binded |-> 0]

\* the sysinfo a plug reports: the fields of HS100Info the handle reads
PlugSysinfo(d) ==
    JObj([model |-> JStr("HS100"), relay_state |-> JNum(d.relay_state),
          led_off |-> JNum(d.led_off), feature |-> JStr(d.feature)])

\* the HSV part of a light state
BulbHsv(d) ==
    [hue |-> JNum(d.hue), saturation |-> JNum(d.saturation),
     brightness |-> JNum(d.brightness), color_temp |-> JNum(d.color_temp)]

\* the light state a bulb reports: the HSV fields are flattened into it while it
\* is on, and reported as dft_on_state while it is off
BulbLightState(d) ==
    IF d.on_off = 1
    THEN JObj([on_off |-> JNum(1)] @@ BulbHsv(d))
    ELSE JObj([on_off |-> JNum(0), dft_on_state |-> JObj(BulbHsv(d))])

\* the capabilities of the bulb models
BulbIsColor(model) == IF model = "LB130" THEN 1 ELSE 0
BulbIsVariableColorTemp(model) == IF model \in {"LB120", "LB130", "KL120"} THEN 1 ELSE 0

\* the sysinfo a bulb reports: the fields of LB110Info the handle reads
BulbSysinfo(d) ==
    JObj([model |-> JStr(d.model), is_dimmable |-> JNum(1),
          is_color |-> JNum(BulbIsColor(d.model)),
          is_variable_color_temp |-> JNum(BulbIsVariableColorTemp(d.model)),
          light_state |-> BulbLightState(d)])

\* a field of the argument when the argument carries it, the old value otherwise
ArgOr(arg, k, old) == IF arg.t = "obj" /\ k \in DOMAIN arg.m THEN arg.m[k].n ELSE old

\* transition_light_state: the bulb takes the fields the argument carries
BulbTransition(d, arg) ==
    [d EXCEPT !.on_off = ArgOr(arg, "on_off", @),
              !.hue = ArgOr(arg, "hue", @),
              !.saturation = ArgOr(arg, "saturation", @),
              !.brightness = ArgOr(arg, "brightness", @),
              !.color_temp = ArgOr(arg, "color_temp", @)]

\* the rule table of the plug's count-down timer
RuleListOf(d) ==
    JObj([rule_list |-> JArr(IF d.rules = 0 THEN <<>> ELSE <<JObj([id |-> JStr("R1")])>>)])

\* the statistics of one month
DayStatsOf(arg) == JObj([day_list |-> JArr(<<arg>>)])

\* the state a factory reset brings a device back to
FactoryState(d) == IF d.kind = "plug" THEN NewPlug(d.feature) ELSE NewBulb(d.model, 1)

\* the commands both kinds of device take: system, cloud and emeter
CommonApply(d, target, command, arg) ==
    CASE target = SystemNs(d.kind) /\ command = "reboot" ->
           [dev |-> d, reply |-> ErrCode0]
      [] target = SystemNs(d.kind) /\ command = "reset" ->
           [dev |-> FactoryState(d), reply |-> ErrCode0]
      [] target = CloudNs(d.kind) /\ command = "get_info" ->
           [dev |-> d, reply |-> JObj([binded |-> JNum(d.binded)])]
      [] target = CloudNs(d.kind) /\ command = "bind" ->
           [dev |-> [d EXCEPT !.binded = 1], reply |-> ErrCode0]
      [] target = CloudNs(d.kind) /\ command = "unbind" ->
           [dev |-> [d EXCEPT !.binded = 0], reply |-> ErrCode0]
      [] target = CloudNs(d.kind) /\ command = "set_server_url" ->
           [dev |-> d, reply |-> ErrCode0]
      [] target = EmeterNs(d.kind) /\ command = "get_daystat" ->
           [dev |-> d, reply |-> DayStatsOf(arg)]
      [] target = EmeterNs(d.kind) /\ command = "erase_emeter_stat" ->
           [dev |-> d, reply |-> ErrCode0]
      [] target = TimeNs(d.kind) /\ command = "get_time" ->
           [dev |-> d, reply |-> JObj([year |-> JNum(2020), month |-> JNum(1), mday |-> JNum(1),
                                       hour |-> JNum(0), min |-> JNum(0), sec |-> JNum(0)])]
      [] target = TimeNs(d.kind) /\ command = "get_timezone" ->
           [dev |-> d, reply |-> JObj([index |-> JNum(1)])]
      [] target = "netif" /\ command = "get_scaninfo" ->
           [dev |-> d, reply |-> JObj([ap_list |-> JArr(<<>>)])]
      [] OTHER -> [dev |-> d, reply |-> JObj([err_code |-> JNum(1)])]

PlugApply(d, target, command, arg) ==
    CASE target = SYSINFO_NS /\ command = "get_sysinfo" ->
           [dev |-> d, reply |-> PlugSysinfo(d)]
      [] target = "system" /\ command = "set_relay_state" ->
           [dev |-> [d EXCEPT !.relay_state = arg.m["state"].n], reply |-> ErrCode0]
      [] target = "system" /\ command = "set_led_off" ->
           [dev |-> [d EXCEPT !.led_off = IF arg.m["off"].b THEN 1 ELSE 0], reply |-> ErrCode0]
      [] target = TIMER_NS /\ command = "get_rules" ->
           [dev |-> d, reply |-> RuleListOf(d)]
      [] target = TIMER_NS /\ command = "add_rule" ->
           [dev |-> [d EXCEPT !.rules = 1], reply |-> JObj([id |-> JStr("R1")])]
      [] target = TIMER_NS /\ command = "edit_rule" ->
           [dev |-> d, reply |-> ErrCode0]
      [] target = TIMER_NS /\ command \in {"delete_rule", "delete_all_rules"} ->
           [dev |-> [d EXCEPT !.rules = 0], reply |-> ErrCode0]
      [] OTHER -> CommonApply(d, target, command, arg)

BulbApply(d, target, command, arg) ==
    CASE target = SYSINFO_NS /\ command = "get_sysinfo" ->
           [dev |-> d, reply |-> BulbSysinfo(d)]
      [] target = LIGHTING_NS /\ command = "get_light_state" ->
           [dev |-> d, reply |-> BulbLightState(d)]
      [] target = LIGHTING_NS /\ command = "transition_light_state" ->
           [dev |-> BulbTransition(d, arg), reply |-> BulbLightState(BulbTransition(d, arg))]
      [] OTHER -> CommonApply(d, target, command, arg)

\* the device applies one command: its next state and the result it reports
DeviceApply(d, target, command, arg) ==
    IF d.kind = "plug" THEN PlugApply(d, target, command, arg)
    ELSE BulbApply(d, target, command, arg)


(***************************************************************************)
(* The arguments the handles build with json!, and the values they are     *)
(* called with                                                             *)
(***************************************************************************)
StateArg(state) == JObj([state |-> JNum(state)])
OffArg(off) == JObj([off |-> JBool(off)])
IdArg(id) == JObj([id |-> JStr(id)])
BindArg(username, password) == JObj([username |-> JStr(username), password |-> JStr(password)])
ServerArg(url) == JObj([server |-> JStr(url)])
OnOffArg(on_off) == JObj([on_off |-> JNum(on_off)])
HsvArg(hue, saturation, value) ==
    JObj([hue |-> JNum(hue), saturation |-> JNum(saturation), value |-> JNum(value),
          color_temp |-> JNum(0)])
HueArg(hue) == JObj([hue |-> JNum(hue), color_temp |-> JNum(0)])
SaturationArg(saturation) == JObj([saturation |-> JNum(saturation), color_temp |-> JNum(0)])
BrightnessArg(brightness) == JObj([brightness |-> JNum(brightness)])
ColorTempArg(color_temp) == JObj([color_temp |-> JNum(color_temp)])
DelayArg(delay_in_secs) == JObj([delay |-> JNum(delay_in_secs)])
ScanArg(refresh, timeout) == JObj([refresh |-> JNum(refresh), timeout |-> JNum(timeout)])

\* Rule::builder().build()
DefaultRule == [act |-> 1, delay |-> 1, enable |-> 1, name |-> "timer"]

RuleArg(rule) ==
    JObj([enable |-> JNum(rule.enable), delay |-> JNum(rule.delay), act |-> JNum(rule.act),
          name |-> JStr(rule.name)])

EditRuleArg(id, rule) == JObj([id |-> JStr(id)] @@ RuleArg(rule).m)

MonthSample == {1, 2}
HueSample == {120}
SaturationSample == {50}
BrightnessSample == {80}
ColorTempSample == {3000}
FeatureSample == {"TIM", "TIM:ENE"}
ModelSample == {"LB110", "LB130"}

\* the values the setters of a bulb are called with, in range and out of range
HueAny == HueSample \cup {361}
SaturationAny == SaturationSample \cup {101}
BrightnessAny == BrightnessSample \cup {101}
ColorTempAny == ColorTempSample \cup {2499, 9001}
MonthAny == {1, 0, 13}

\* a bulb of the same protocol whose model valid_color_temp_range does not list
UnlistedModels == {"KL120"}

\* every request a handle of one kind can build from these values
Requests(kind) ==
    {Request(SYSINFO_NS, "get_sysinfo", NoValue),
     Request(CloudNs(kind), "get_info", NoValue),
     Request(CloudNs(kind), "bind", BindArg("user", "pass")),
     Request(CloudNs(kind), "unbind", NoValue),
     Request(CloudNs(kind), "set_server_url", ServerArg("url")),
     Request(EmeterNs(kind), "erase_emeter_stat", NoValue),
     Request(SystemNs(kind), "reboot", DelayArg(1)),
     Request(SystemNs(kind), "reset", DelayArg(1)),
     Request(TimeNs(kind), "get_time", NoValue),
     Request(TimeNs(kind), "get_timezone", NoValue)}
    \cup {Request("netif", "get_scaninfo", ScanArg(refresh, 3)) : refresh \in 0..1}
    \cup {Request(EmeterNs(kind), "get_daystat", Month(m)) : m \in MonthSample}
    \cup (IF kind = "plug"
          THEN {Request("system", "set_relay_state", StateArg(n)) : n \in 0..1}
               \cup {Request("system", "set_led_off", OffArg(b)) : b \in BOOLEAN}
               \cup {Request(TIMER_NS, "get_rules", NoValue),
                     Request(TIMER_NS, "add_rule", RuleArg(DefaultRule)),
                     Request(TIMER_NS, "edit_rule", EditRuleArg("R1", DefaultRule)),
                     Request(TIMER_NS, "delete_rule", IdArg("R1")),
                     Request(TIMER_NS, "delete_all_rules", NoValue)}
          ELSE {Request(LIGHTING_NS, "get_light_state", NoValue)}
               \cup {Request(LIGHTING_NS, "transition_light_state", a) :
                        a \in {OnOffArg(n) : n \in 0..1}
                              \cup {HsvArg(h, sa, v) : h \in HueSample, sa \in SaturationSample,
                                                       v \in BrightnessSample}
                              \cup {HueArg(h) : h \in HueSample}
                              \cup {SaturationArg(sa) : sa \in SaturationSample}
                              \cup {BrightnessArg(b) : b \in BrightnessSample}
                              \cup {ColorTempArg(ct) : ct \in ColorTempSample}})

\* every state a device of one kind can be brought to by these requests
DevStates(kind) ==
    IF kind = "plug"
    THEN {[kind |-> "plug", relay_state |-> r, led_off |-> l, feature |-> f, rules |-> n,
           binded |-> b] : r \in 0..1, l \in 0..1, f \in FeatureSample, n \in 0..1, b \in 0..1}
    ELSE {[kind |-> "bulb", model |-> m, on_off |-> o, hue |-> h, saturation |-> sa,
           brightness |-> br, color_temp |-> ct, binded |-> b] :
             m \in ModelSample, o \in 0..1, h \in {0} \cup HueSample,
             sa \in {0} \cup SaturationSample, br \in {100} \cup BrightnessSample,
             ct \in {0, 2700} \cup ColorTempSample, b \in 0..1}

\* a value as a parser yields it: an absent optional value was written as null
RECURSIVE AsParsed(_)
AsParsed(v) ==
    CASE v.t = "none" -> JNull
      [] v.t = "arr" -> JArr([i \in 1..Len(v.a) |-> AsParsed(v.a[i])])
      [] v.t = "obj" -> JObj([k \in DOMAIN v.m |-> AsParsed(v.m[k])])
      [] OTHER -> v

\* json!({ target: { command: arg } })
Envelope(target, command, arg) == JObj(target :> JObj(command :> arg))


(***************************************************************************)
(* The documents that travel, and their texts and datagrams. The tables    *)
(* hold ToVec, encrypt and decrypt tabulated over these documents.         *)
(***************************************************************************)
DeviceKinds == {"plug", "bulb"}

\* the results a scripted device answers with
ResultSample == {JObj([alias |-> JStr("Lamp")]), ErrCode0, JNum(1), JNull}

\* the requests made of a scripted device
ProtoRequests ==
    {Request("system", "get_sysinfo", NoValue),
     Request("system", "set_relay_state", StateArg(1)),
     Request("emeter", "get_daystat", Month(1))}

\* the replies a scripted device is given: the result under the namespace and
\* command of a request, alone or beside the other namespace
ScriptedDocs ==
    {Envelope(r.target, r.command, v) : r \in ProtoRequests, v \in ResultSample}
    \cup {JObj((r.target :> JObj(r.command :> v)) @@ (o.target :> JObj(o.command :> u))) :
             r \in ProtoRequests, o \in ProtoRequests, v \in ResultSample, u \in ResultSample}

\* the arguments of transition_light_state for the values of the setters
AnyLightArgs ==
    {HsvArg(h, sa, v) : h \in HueAny, sa \in SaturationAny, v \in BrightnessAny}
    \cup {HueArg(h) : h \in HueAny}
    \cup {SaturationArg(sa) : sa \in SaturationAny}
    \cup {BrightnessArg(b) : b \in BrightnessAny}
    \cup {ColorTempArg(ct) : ct \in ColorTempAny}

\* the documents the handles write
SentDocs ==
    {Envelope(r.target, r.command, r.arg) :
        r \in Requests("plug") \cup Requests("bulb") \cup ProtoRequests}
    \cup {Envelope(LIGHTING_NS, "transition_light_state", a) : a \in AnyLightArgs}

\* the documents a device writes in answer
DeviceDocs ==
    UNION {{Envelope(r.target, r.command,
                     DeviceApply(d, r.target, r.command, AsParsed(r.arg)).reply) :
               d \in DevStates(kind), r \in Requests(kind)} : kind \in DeviceKinds}
    \cup {Envelope(SYSINFO_NS, "get_sysinfo", BulbSysinfo([d EXCEPT !.model = m])) :
             d \in DevStates("bulb"), m \in UnlistedModels}

\* every document that travels: those the handles write, what a parser makes of
\* them, and those the devices write
Docs ==
    LET WithParsed(sent) == sent \cup {AsParsed(d) : d \in sent}
    IN  WithParsed(SentDocs) \cup DeviceDocs \cup ScriptedDocs

\* the values of a table
Range(f) == {f[x] : x \in DOMAIN f}

\* a function tabulated: its table and the arguments the table holds
Table(f) == [of |-> f, on |-> DOMAIN f]

\* a table's entry for x, and the function itself outside the table
Memo(table, x, direct) == IF x \in table.on THEN table.of[x] ELSE direct

TextOf == [d \in Docs |-> ToVec(d)]

\* byte sequences that are not the text of any document
Garbage == {<<>>, <<123>>, <<123, 34>>}

CipherOf == [b \in Range(TextOf) \cup Garbage |-> encrypt(b)]

PlainOf == [c \in Range(CipherOf) |-> decrypt(c)]

\* the document a text is read as: a parser yields no absent value
Parsed(text) ==
    [b \in {text[d] : d \in {x \in DOMAIN text : AsParsed(x) = x}} |->
        CHOOSE d \in DOMAIN text : AsParsed(d) = d /\ text[d] = b]

DocOf == Parsed(TextOf)

\* the tables together; a call carries them in its world
Memos ==
    [text |-> Table(TextOf), cipher |-> Table(CipherOf), plain |-> Table(PlainOf),
     doc |-> Table(DocOf)]

\* serde_json::to_vec
to_vec(memo, v) == Memo(memo.text, v, ToVec(v))

\* serde_json::from_slice: the document whose text the bytes are, a syntax error
\* for any other bytes
FromSlice(memo, bytes) == Memo(memo.doc, bytes, SyntaxError)

\* an encryption that writes the 4-byte big-endian length header before the body
crypto_encrypt_with_header(memo, bytes) ==
    <<(Len(bytes) \div 16777216) % 256, (Len(bytes) \div 65536) % 256,
      (Len(bytes) \div 256) % 256, Len(bytes) % 256>> \o Memo(memo.cipher, bytes, encrypt(bytes))

\* crypto::encrypt and crypto::decrypt as the transport calls them
crypto_encrypt(memo, bytes) == Memo(memo.cipher, bytes, encrypt(bytes))
crypto_decrypt(memo, bytes) == Memo(memo.plain, bytes, decrypt(bytes))

(***************************************************************************)
(* proto.rs: one exchange with the device                                  *)
(***************************************************************************)
\* Builder::new
offline_tolerance == 1
buffer_size == 4096

\* what the network does to one exchange: it carries the request and the reply,
\* loses the request, or loses the reply
Fates == {"ok", "lost_req", "lost_reply"}

\* the exchanges that fail before anything is sent: UdpSocket::bind fails, or
\* send_to does
Unsent == {"bind_err", "send_err"}

\* the process aborted by panic!, unwrap or an index out of bounds
Panic == [ok |-> FALSE, err |-> "panic"]

\* ()
Unit == [t |-> "unit"]

OnNet(w, net) == [w EXCEPT !.net = net]

\* Builder::buffer_size(n) replaces the size Builder::new sets; a world carries
\* the size only when the handle was built from a Config
BufferSize(w) == IF "buffer_size" \in DOMAIN w THEN w.buffer_size ELSE buffer_size

\* a receive into a buffer that grows to hold the datagram
ReceiveWhole(bytes, size) == bytes

\* &buf[..recv]: a datagram longer than the buffer is cut to its size
Truncate(bytes, size) == IF Len(bytes) <= size THEN bytes ELSE SubSeq(bytes, 1, size)

\* a plug or a bulb applies the command of the document it has read and writes
\* {target: {command: result}}
DeviceAnswer(memo, d, doc) ==
    LET target == CHOOSE k \in DOMAIN doc.m : TRUE
        command == CHOOSE k \in DOMAIN doc.m[target].m : TRUE
        Answer(r) == [dev |-> r.dev, text |-> to_vec(memo, Envelope(target, command, r.reply))]
    IN  Answer(DeviceApply(d, target, command, doc.m[target].m[command]))

\* the device end: a scripted device answers any datagram with its script, a
\* plug or a bulb decrypts the datagram and answers its command; the answer
\* travels encrypted
DeviceHandle(memo, d, dgram) ==
    LET Encrypted(a) == [dev |-> a.dev, reply |-> crypto_encrypt(memo, a.text)]
    IN  Encrypted(IF d.kind = "scripted" THEN [dev |-> d, text |-> d.reply]
                  ELSE DeviceAnswer(memo, d, FromSlice(memo, crypto_decrypt(memo, dgram))))

\* n copies of a datagram reach the device: its state and its replies, in order
RECURSIVE Deliver(_, _, _, _)
Deliver(memo, acc, dgram, n) ==
    LET Handled(h) == [dev |-> h.dev, replies |-> Append(acc.replies, h.reply)]
    IN  IF n = 0 THEN acc
        ELSE Deliver(memo, Handled(DeviceHandle(memo, acc.dev, dgram)), dgram, n - 1)

\* Proto::send_bytes: offline_tolerance datagrams are sent, then one reply is
\* received and decrypted; a bind or a send that fails, and a receive that
\* times out, is an Io error
SendBytes(w, req) ==
    LET fate == Head(w.net)
        copies == IF fate \in Unsent THEN 0 ELSE offline_tolerance
        Sent(dgram) == [w EXCEPT !.net = Tail(@), !.sent = @ \o [i \in 1..copies |-> dgram]]
        Recv(w1, d) ==
            IF fate = "ok" /\ d.replies # <<>>
            THEN [w |-> [w1 EXCEPT !.dev = d.dev],
                  res |-> Ok(crypto_decrypt(w.memo, Truncate(d.replies[1], BufferSize(w))))]
            ELSE [w |-> [w1 EXCEPT !.dev = d.dev], res |-> Err("Io")]
        Exchange(dgram) ==
            Recv(Sent(dgram),
                 Deliver(w.memo, [dev |-> w.dev, replies |-> <<>>], dgram,
                         IF fate \in Unsent \cup {"lost_req"} THEN 0 ELSE offline_tolerance))
    IN  Exchange(crypto_encrypt(w.memo, req))

\* a take that returns the namespace object instead of the command's result
TakeNamespace(value, target, command) ==
    IF ~CanIndexMut(value) THEN Panic
    ELSE IF ~CanIndexMut(Index(value, target)) THEN Panic
    ELSE Ok(Index(value, target))

\* value[target][command].take()
Take(value, target, command) ==
    IF ~CanIndexMut(value) THEN Panic
    ELSE IF ~CanIndexMut(Index(value, target)) THEN Panic
    ELSE Ok(Index(Index(value, target), command))

\* a reading of the reply that takes an unparsable reply for an empty one
ReadReplyLenient(memo, req, s) ==
    LET Read(value) ==
            IF value = SyntaxError THEN [w |-> s.w, res |-> Ok(JNull)]
            ELSE [w |-> s.w, res |-> Take(value, req.target, req.command)]
    IN  IF ~s.res.ok THEN s ELSE Read(FromSlice(memo, s.res.v))

\* .and_then(|res| serde_json::from_slice::<Value>(&res)
\*     .map(|mut value| value[target][command].take()).map_err(error::json))
\* of the outcome s of send_bytes
ReadReply(memo, req, s) ==
    LET Read(value) ==
            IF value = SyntaxError THEN [w |-> s.w, res |-> Err("Json")]
            ELSE [w |-> s.w, res |-> Take(value, req.target, req.command)]
    IN  IF ~s.res.ok THEN s ELSE Read(FromSlice(memo, s.res.v))

\* Proto::send_request
SendRequest(w, req) ==
    ReadReply(w.memo, req,
              SendBytes(Emit(w, [e |-> "request", key |-> RequestHash(req), arg |-> req.arg,
                                    cached |-> IF w.cache.on THEN CachedKeys(w.cache) ELSE {}]),
                           to_vec(w.memo, Envelope(req.target, req.command, req.arg))))

(***************************************************************************)
(* The patterns the command modules share                                  *)
(***************************************************************************)
\* a read command: through the cache when the handle has one
ReadThrough(w, request) ==
    IF w.cache.on
    THEN GetOrInsertWith(w, request, SendRequest(AfterGet(w, request), request))
    ELSE SendRequest(w, request)

\* a command that skips the invalidation
InvalidateNothing(w, ns) == w

\* an invalidation step that is taken whether or not the handle holds a cache
InvalidateUnconditionally(w, ns) ==
    IF w.cache.on
    THEN Emit([w EXCEPT !.cache = RetainOtherTargets(@, ns)],
              [e |-> "retain", ns |-> ns,
               removed |-> CacheLen(w.cache) - CacheLen(RetainOtherTargets(w.cache, ns))])
    ELSE Emit(w, [e |-> "retain", ns |-> ns, removed |-> 0])

\* if let Some(cache) = self.cache.as_ref() { cache.borrow_mut().retain(..) }
Invalidate(w, ns) ==
    IF w.cache.on
    THEN Emit([w EXCEPT !.cache = RetainOtherTargets(@, ns)],
              [e |-> "retain", ns |-> ns,
               removed |-> CacheLen(w.cache) - CacheLen(RetainOtherTargets(w.cache, ns))])
    ELSE w

\* serde_json::from_value(response).unwrap_or_else(|err| panic!(..)) of a call
\* that returned s: a response without the fields of the type aborts
FromValue(fields, s) ==
    IF ~s.res.ok THEN s
    ELSE IF s.res.v.t = "obj" /\ fields \subseteq DOMAIN s.res.v.m THEN s
    ELSE [w |-> s.w, res |-> Panic]

\* response?; Ok(())
Discard(s) == IF ~s.res.ok THEN s ELSE [w |-> s.w, res |-> Ok(Unit)]


(***************************************************************************)
(* command/sysinfo.rs, command/emeter.rs, command/cloud.rs                 *)
(***************************************************************************)
\* SystemInfo::get_sysinfo on a handle that has a cache
SysinfoCached(w) ==
    LET request == Request("system", "get_sysinfo", NoValue)
        g == CacheGet(w.cache, request, w.now)
        Inserted(s) ==
            IF ~s.res.ok THEN s
            ELSE [w |-> Emit([s.w EXCEPT !.cache = CacheInsert(@, request, s.res.v, s.w.now)],
                             [e |-> "insert", key |-> RequestHash(request)]),
                  res |-> s.res]
    IN  IF g.val # NoValue
        THEN [w |-> AfterGet(w, request), res |-> Ok(g.val)]
        ELSE Inserted(SendRequest(AfterGet(w, request), request))

\* SystemInfo::get_sysinfo on a handle built without a cache: the exchange alone
SysinfoUncached(w) == SendRequest(w, Request("system", "get_sysinfo", NoValue))

\* SystemInfo<T>::get_sysinfo; fields are those of T
get_sysinfo(w, fields) ==
    FromValue(fields, IF w.cache.on THEN SysinfoCached(w) ELSE SysinfoUncached(w))

\* EmeterStats::get_day_stats
get_day_stats(w, ns, month, year) ==
    FromValue({"day_list"}, ReadThrough(w, Request(ns, "get_daystat", MonthYear(month, year))))

\* EmeterStats::erase_stats
erase_stats(w, ns) ==
    Discard(SendRequest(Invalidate(w, ns), Request(ns, "erase_emeter_stat", NoValue)))

\* CloudSettings::get_info
get_info(w, ns) == FromValue({"binded"}, ReadThrough(w, Request(ns, "get_info", NoValue)))

\* timeout.map_or(proto.read_timeout().map_or(3, ..), |duration| duration.as_secs())
unwrap_or_secs(timeout, read_timeout) == IF timeout = NoValue THEN read_timeout ELSE timeout

\* a read of the time that goes through the cache of the handle
get_time_through_cache(w, ns) ==
    FromValue({"year", "month", "mday", "hour", "min", "sec"},
              ReadThrough(w, Request(ns, "get_time", NoValue)))

\* TimeSettings::get_time; struct DeviceTime
get_time(w, ns) ==
    FromValue({"year", "month", "mday", "hour", "min", "sec"},
              SendRequest(w, Request(ns, "get_time", NoValue)))

\* TimeSettings::get_timezone; struct DeviceTimeZone
get_timezone(w, ns) == FromValue({"index"}, SendRequest(w, Request(ns, "get_timezone", NoValue)))

\* Netif::get_scan_info; timeout is None on the handle of a Proto whose read
\* timeout is 3 s; the ap_list of struct AccessPointList is returned
get_scan_info(w, refresh, timeout) ==
    LET ApList(s) == IF ~s.res.ok THEN s ELSE [w |-> s.w, res |-> Ok(s.res.v.m["ap_list"])]
    IN  ApList(FromValue({"ap_list"},
                         SendRequest(w, Request("netif", "get_scaninfo",
                                                ScanArg(IF refresh THEN 1 ELSE 0,
                                                        unwrap_or_secs(timeout, 3))))))

\* CloudSettings::bind
bind(w, ns, username, password) ==
    Discard(SendRequest(Invalidate(w, ns), Request(ns, "bind", BindArg(username, password))))

\* CloudSettings::unbind
unbind(w, ns) == Discard(SendRequest(Invalidate(w, ns), Request(ns, "unbind", NoValue)))

\* CloudSettings::set_server_url
set_server_url(w, ns, url) ==
    Discard(SendRequest(Invalidate(w, ns), Request(ns, "set_server_url", ServerArg(url))))

(***************************************************************************)
(* command/sys.rs                                                          *)
(***************************************************************************)
\* a clear that drops the entries of the namespace only
ClearNamespace(w, ns) ==
    IF w.cache.on
    THEN Emit([w EXCEPT !.cache = RetainOtherTargets(@, ns)],
              [e |-> "clear", ns |-> ns,
               removed |-> CacheLen(w.cache) - CacheLen(RetainOtherTargets(w.cache, ns))])
    ELSE w

\* if let Some(cache) = self.cache.as_ref() { cache.borrow_mut().clear() }
Clear(w, ns) ==
    IF w.cache.on
    THEN Emit([w EXCEPT !.cache = CacheClear(@)],
              [e |-> "clear", ns |-> ns, removed |-> CacheLen(w.cache)])
    ELSE w

\* delay.map_or(1, |duration| duration.as_secs())
delay_in_secs(delay) == IF delay = NoValue THEN 1 ELSE delay

\* System::reboot
reboot(w, ns, delay) ==
    Discard(SendRequest(Clear(w, ns), Request(ns, "reboot", DelayArg(delay_in_secs(delay)))))

\* System::reset
reset(w, ns, delay) ==
    Discard(SendRequest(Clear(w, ns), Request(ns, "reset", DelayArg(delay_in_secs(delay)))))

\* str::contains over the strings the devices report
StrContains(str, pattern) ==
    \/ str = pattern
    \/ <<str, pattern>> \in {<<"TIM:ENE", "ENE">>, <<"TIM:ENE", "TIM">>,
                             <<"iot.smartplugswitch", "plug">>, <<"iot.smartbulb", "bulb">>}

\* util::u32_in_range
u32_in_range(val, min, max) == val >= min /\ val <= max

(***************************************************************************)
(* plug/timer.rs                                                           *)
(***************************************************************************)
\* TimerSettings::get_rules
get_rules(w) == FromValue({"rule_list"}, ReadThrough(w, Request(TIMER_NS, "get_rules", NoValue)))

\* TimerSettings::add_rule; the id of the new rule is returned
add_rule(w, rule) ==
    LET Id(s) == IF ~s.res.ok THEN s ELSE [w |-> s.w, res |-> Ok(Index(s.res.v, "id"))]
    IN  Id(SendRequest(Invalidate(w, TIMER_NS), Request(TIMER_NS, "add_rule", RuleArg(rule))))

\* TimerSettings::edit_rule
edit_rule(w, id, rule) ==
    Discard(SendRequest(Invalidate(w, TIMER_NS),
                        Request(TIMER_NS, "edit_rule", EditRuleArg(id, rule))))

\* TimerSettings::delete_rule_with_id
delete_rule_with_id(w, id) ==
    Discard(SendRequest(Invalidate(w, TIMER_NS), Request(TIMER_NS, "delete_rule", IdArg(id))))

\* TimerSettings::delete_all_rules
delete_all_rules(w) ==
    Discard(SendRequest(Invalidate(w, TIMER_NS), Request(TIMER_NS, "delete_all_rules", NoValue)))

(***************************************************************************)
(* plug/hs100.rs                                                           *)
(***************************************************************************)
HS100Info == {"model", "relay_state", "led_off", "feature"}

\* impl SysInfo for HS100
HS100_sysinfo(w) == get_sysinfo(w, HS100Info)

\* HS100::is_on
HS100_is_on(w) ==
    LET Map(s) == IF ~s.res.ok THEN s ELSE [w |-> s.w, res |-> Ok(s.res.v.m["relay_state"].n = 1)]
    IN  Map(HS100_sysinfo(w))

\* HS100::is_led_on
HS100_is_led_on(w) ==
    LET Map(s) == IF ~s.res.ok THEN s ELSE [w |-> s.w, res |-> Ok(s.res.v.m["led_off"].n = 0)]
    IN  Map(HS100_sysinfo(w))

\* HS100::turn_on_led
HS100_turn_on_led(w) ==
    Discard(SendRequest(Invalidate(w, "system"), Request("system", "set_led_off", OffArg(FALSE))))

\* HS100::turn_off_led
HS100_turn_off_led(w) ==
    Discard(SendRequest(Invalidate(w, "system"), Request("system", "set_led_off", OffArg(TRUE))))

\* impl Device for HS100: turn_on
HS100_turn_on(w) ==
    Discard(SendRequest(Invalidate(w, "system"), Request("system", "set_relay_state", StateArg(1))))

\* impl Device for HS100: turn_off
HS100_turn_off(w) ==
    Discard(SendRequest(Invalidate(w, "system"), Request("system", "set_relay_state", StateArg(0))))

\* an add_timer_rule that adds the rule whatever the table holds
HS100_add_timer_rule_unchecked(w, rule) ==
    LET AndThen(l) == IF ~l.res.ok THEN l ELSE add_rule(l.w, rule)
    IN  AndThen(get_rules(w))

\* impl Timer for HS100: add_timer_rule
HS100_add_timer_rule(w, rule) ==
    LET AndThen(l) ==
            IF ~l.res.ok THEN l
            ELSE IF Len(l.res.v.m["rule_list"].a) = 0 THEN add_rule(l.w, rule)
            ELSE [w |-> l.w, res |-> Err("UnsupportedOperation")]
    IN  AndThen(get_rules(w))

\* the capability check that opens every emeter method of a handle: Ok(TRUE)
\* when the device has an emeter, the failure of sysinfo, or UnsupportedOperation
HS100_with_emeter(w) ==
    LET AndThen(s) ==
            IF ~s.res.ok THEN s
            ELSE IF StrContains(s.res.v.m["feature"].s, "ENE") THEN [w |-> s.w, res |-> Ok(TRUE)]
            ELSE [w |-> s.w, res |-> Err("UnsupportedOperation")]
    IN  AndThen(HS100_sysinfo(w))

\* impl Emeter for HS100: get_emeter_day_stats
HS100_get_emeter_day_stats(w, month, year) ==
    LET AndThen(c) ==
            IF ~c.res.ok THEN c
            ELSE IF u32_in_range(month, 1, 12) THEN get_day_stats(c.w, "emeter", month, year)
            ELSE [w |-> c.w, res |-> Err("InvalidParameter")]
    IN  AndThen(HS100_with_emeter(w))

\* impl Emeter for HS100: erase_emeter_stats
HS100_erase_emeter_stats(w) ==
    LET AndThen(c) == IF ~c.res.ok THEN c ELSE erase_stats(c.w, "emeter")
    IN  AndThen(HS100_with_emeter(w))


(***************************************************************************)
(* bulb/lighting.rs                                                        *)
(***************************************************************************)
LightStateFields == {"on_off"}
HsvFields == {"hue", "saturation", "brightness", "color_temp"}

\* Lighting::get_light_state
get_light_state(w) ==
    FromValue(LightStateFields, ReadThrough(w, Request(LIGHTING_NS, "get_light_state", NoValue)))

\* Lighting::set_light_state
set_light_state(w, arg) ==
    Discard(FromValue(LightStateFields,
                      SendRequest(Invalidate(w, LIGHTING_NS),
                                  Request(LIGHTING_NS, "transition_light_state", arg))))

\* struct HSV, read from the fields of an object
HSV(m) ==
    [hue |-> m["hue"].n, saturation |-> m["saturation"].n, value |-> m["brightness"].n,
     color_temp |-> m["color_temp"].n]

\* LightState::is_on
LightState_is_on(ls) == ls.m["on_off"].n = 1

\* LightState::hsv: the flattened fields while the bulb is on, dft_on_state while
\* it is off; unwrap aborts when they are missing
LightState_hsv(ls) ==
    IF ls.m["on_off"].n = 1
    THEN IF HsvFields \subseteq DOMAIN ls.m THEN Ok(HSV(ls.m)) ELSE Panic
    ELSE IF "dft_on_state" \in DOMAIN ls.m /\ ls.m["dft_on_state"].t = "obj"
            /\ HsvFields \subseteq DOMAIN ls.m["dft_on_state"].m
         THEN Ok(HSV(ls.m["dft_on_state"].m))
         ELSE Panic

(***************************************************************************)
(* util.rs and bulb/lb110.rs                                               *)
(***************************************************************************)
\* util::valid_color_temp_range: devices[0] aborts when no model matches
valid_color_temp_range(model) ==
    IF StrContains(model, "LB120") THEN Ok(<<2700, 6500>>)
    ELSE IF StrContains(model, "LB130") THEN Ok(<<2500, 9000>>)
    ELSE Panic

LB110Info == {"model", "is_dimmable", "is_color", "is_variable_color_temp", "light_state"}

\* impl SysInfo for LB110
LB110_sysinfo(w) == get_sysinfo(w, LB110Info)

\* LB110::is_on
LB110_is_on(w) ==
    LET Map(s) == IF ~s.res.ok THEN s ELSE [w |-> s.w, res |-> Ok(LightState_is_on(s.res.v))]
    IN  Map(get_light_state(w))

\* LB110::hsv, with LB110Info::hsv
LB110_hsv(w) ==
    LET AndThen(s) ==
            IF ~s.res.ok THEN s
            ELSE IF s.res.v.m["is_color"].n = 1
            THEN [w |-> s.w, res |-> LightState_hsv(s.res.v.m["light_state"])]
            ELSE [w |-> s.w, res |-> Err("UnsupportedOperation")]
    IN  AndThen(LB110_sysinfo(w))

\* the opening of every capability-guarded method: sysinfo()?, then the check
\* of the capability field
LB110_capable(w, capability) ==
    LET AndThen(s) ==
            IF ~s.res.ok THEN s
            ELSE IF s.res.v.m[capability].n = 1 THEN [w |-> s.w, res |-> Ok(s.res.v.m["model"].s)]
            ELSE [w |-> s.w, res |-> Err("UnsupportedOperation")]
    IN  AndThen(LB110_sysinfo(w))

\* the guarded getters: hue, saturation, brightness, color_temp
LB110_get(w, capability, field) ==
    LET Field(s) ==
            IF ~s.res.ok THEN s
            ELSE IF ~LightState_hsv(s.res.v).ok THEN [w |-> s.w, res |-> Panic]
            ELSE [w |-> s.w, res |-> Ok(LightState_hsv(s.res.v).v[field])]
        AndThen(c) == IF ~c.res.ok THEN c ELSE Field(get_light_state(c.w))
    IN  AndThen(LB110_capable(w, capability))

\* a setter that sends the command whatever the range check said
LB110_set_unchecked(w, capability, in_range, arg) ==
    LET AndThen(c) == IF ~c.res.ok THEN c ELSE set_light_state(c.w, arg)
    IN  AndThen(LB110_capable(w, capability))

\* the guarded setters, once the range check has been evaluated
LB110_set(w, capability, in_range, arg) ==
    LET AndThen(c) ==
            IF ~c.res.ok THEN c
            ELSE IF in_range THEN set_light_state(c.w, arg)
            ELSE [w |-> c.w, res |-> Err("InvalidParameter")]
    IN  AndThen(LB110_capable(w, capability))

LB110_hue(w) == LB110_get(w, "is_color", "hue")
LB110_saturation(w) == LB110_get(w, "is_color", "saturation")
LB110_brightness(w) == LB110_get(w, "is_dimmable", "value")
LB110_color_temp(w) == LB110_get(w, "is_variable_color_temp", "color_temp")

LB110_set_hsv(w, hue, saturation, value) ==
    LB110_set(w, "is_color",
              u32_in_range(hue, 0, 360) /\ u32_in_range(saturation, 0, 100)
                  /\ u32_in_range(value, 0, 100),
              HsvArg(hue, saturation, value))

LB110_set_hue(w, hue) == LB110_set(w, "is_color", u32_in_range(hue, 0, 360), HueArg(hue))

LB110_set_saturation(w, saturation) ==
    LB110_set(w, "is_color", u32_in_range(saturation, 0, 100), SaturationArg(saturation))

LB110_set_brightness(w, brightness) ==
    LB110_set(w, "is_dimmable", u32_in_range(brightness, 0, 100), BrightnessArg(brightness))

\* LB110::set_color_temp: the range is looked up once the capability is known
LB110_set_color_temp(w, color_temp) ==
    LET InRange(c, range) ==
            IF ~range.ok THEN [w |-> c.w, res |-> Panic]
            ELSE IF u32_in_range(color_temp, range.v[1], range.v[2])
            THEN set_light_state(c.w, ColorTempArg(color_temp))
            ELSE [w |-> c.w, res |-> Err("InvalidParameter")]
        AndThen(c) == IF ~c.res.ok THEN c ELSE InRange(c, valid_color_temp_range(c.res.v))
    IN  AndThen(LB110_capable(w, "is_variable_color_temp"))

\* impl Device for LB110
LB110_turn_on(w) == set_light_state(w, OnOffArg(1))
LB110_turn_off(w) == set_light_state(w, OnOffArg(0))

\* impl Emeter for LB110: LB110Info::has_emeter is true
LB110_get_emeter_day_stats(w, month, year) ==
    LET AndThen(s) ==
            IF ~s.res.ok THEN s
            ELSE IF u32_in_range(month, 1, 12)
            THEN get_day_stats(s.w, "smartlife.iot.common.emeter", month, year)
            ELSE [w |-> s.w, res |-> Err("InvalidParameter")]
    IN  AndThen(LB110_sysinfo(w))

LB110_erase_emeter_stats(w) ==
    LET AndThen(s) == IF ~s.res.ok THEN s ELSE erase_stats(s.w, "smartlife.iot.common.emeter")
    IN  AndThen(LB110_sysinfo(w))


(***************************************************************************)
(* A program that owns one handle and calls its methods one after another. *)
(* Every call runs to its return; the clock moves between calls.           *)
(***************************************************************************)
\* the fates of the exchanges a call can make
Nets == {<<a, b>> : a \in Fates, b \in Fates}

\* the world a call starts in
Start(net) ==
    [cache |-> cache, dev |-> dev, now |-> now, net |-> net, sent |-> <<>>, log |-> <<>>,
     memo |-> Memos]

\* the call returns: what it left in the cache and in the device, and the
\* record of the call; a fate other than "ok" is chosen only for an exchange the
\* call makes
Commit(name, arg, net, r) ==
    /\ \A i \in 1..Len(r.w.net) : r.w.net[i] = "ok"
    /\ cache' = r.w.cache
    /\ dev' = r.w.dev
    /\ last' = [op |-> name, arg |-> arg, ok |-> r.res.ok, res |-> r.res, log |-> r.w.log,
                sent |-> r.w.sent,
                net |-> SubSeq(net, 1, Len(net) - Len(r.w.net)), t |-> now, n |-> last.n + 1,
                evicted |-> \E i \in 1..Len(r.w.log) :
                                r.w.log[i].e = "retain" /\ r.w.log[i].removed > 0]
    /\ prev' = [op |-> last.op, ok |-> last.ok, evicted |-> last.evicted]
    /\ UNCHANGED <<cipherVars, disc, sock, conf, now>>

\* the caches a handle is built with: Plug::new builds none and Bulb::new one,
\* with_config builds either
HandleCaches == {NoCache} \cup {with_ttl(ttl) : ttl \in 0..MaxTtl}

InitHandle(devices, caches) ==
    /\ cin = <<>>
    /\ cbuf = <<>>
    /\ cops = <<>>
    /\ now = 0
    /\ dev \in devices
    /\ cache \in caches
    /\ last = [op |-> "new", ok |-> TRUE, n |-> 0, evicted |-> FALSE]
    /\ prev = [op |-> "new", ok |-> TRUE, evicted |-> FALSE]
    /\ disc = NoDiscovery
    /\ sock = NoSocket
    /\ conf = NoBuilder

IsPlug(cap) == dev.kind = "plug" /\ last.n < cap
IsBulb(cap) == dev.kind = "bulb" /\ last.n < cap

PlugIsOn(cap) ==
    IsPlug(cap) /\ \E net \in Nets : Commit("is_on", <<>>, net, HS100_is_on(Start(net)))
PlugIsLedOn(cap) ==
    IsPlug(cap) /\ \E net \in Nets : Commit("is_led_on", <<>>, net, HS100_is_led_on(Start(net)))
PlugTurnOn(cap) ==
    IsPlug(cap) /\ \E net \in Nets : Commit("turn_on", <<>>, net, HS100_turn_on(Start(net)))
PlugTurnOff(cap) ==
    IsPlug(cap) /\ \E net \in Nets : Commit("turn_off", <<>>, net, HS100_turn_off(Start(net)))
PlugTurnOnLed(cap) ==
    IsPlug(cap) /\ \E net \in Nets : Commit("turn_on_led", <<>>, net, HS100_turn_on_led(Start(net)))
PlugTurnOffLed(cap) ==
    IsPlug(cap) /\ \E net \in Nets : Commit("turn_off_led", <<>>, net, HS100_turn_off_led(Start(net)))
PlugGetTimerRules(cap) ==
    IsPlug(cap) /\ \E net \in Nets : Commit("get_timer_rules", <<>>, net, get_rules(Start(net)))
PlugAddTimerRule(cap) ==
    IsPlug(cap) /\ \E net \in Nets :
        Commit("add_timer_rule", <<>>, net, HS100_add_timer_rule(Start(net), DefaultRule))
PlugEditTimerRule(cap) ==
    IsPlug(cap) /\ \E net \in Nets :
        Commit("edit_timer_rule", <<>>, net, edit_rule(Start(net), "R1", DefaultRule))
PlugDeleteTimerRule(cap) ==
    IsPlug(cap) /\ \E net \in Nets :
        Commit("delete_timer_rule_with_id", <<>>, net, delete_rule_with_id(Start(net), "R1"))
PlugDeleteAllTimerRules(cap) ==
    IsPlug(cap) /\ \E net \in Nets :
        Commit("delete_all_timer_rules", <<>>, net, delete_all_rules(Start(net)))
PlugGetEmeterDayStats(cap) ==
    IsPlug(cap) /\ \E net \in Nets, month \in MonthSample :
        Commit("get_emeter_day_stats", month, net,
               HS100_get_emeter_day_stats(Start(net), month, 2020))
PlugEraseEmeterStats(cap) ==
    IsPlug(cap) /\ \E net \in Nets :
        Commit("erase_emeter_stats", <<>>, net, HS100_erase_emeter_stats(Start(net)))

BulbIsOn(cap) ==
    IsBulb(cap) /\ \E net \in Nets : Commit("is_on", <<>>, net, LB110_is_on(Start(net)))
BulbGetHsv(cap) ==
    IsBulb(cap) /\ \E net \in Nets : Commit("hsv", <<>>, net, LB110_hsv(Start(net)))
BulbHue(cap) ==
    IsBulb(cap) /\ \E net \in Nets : Commit("hue", <<>>, net, LB110_hue(Start(net)))
BulbSaturation(cap) ==
    IsBulb(cap) /\ \E net \in Nets : Commit("saturation", <<>>, net, LB110_saturation(Start(net)))
BulbBrightness(cap) ==
    IsBulb(cap) /\ \E net \in Nets : Commit("brightness", <<>>, net, LB110_brightness(Start(net)))
BulbColorTemp(cap) ==
    IsBulb(cap) /\ \E net \in Nets : Commit("color_temp", <<>>, net, LB110_color_temp(Start(net)))
BulbTurnOn(cap) ==
    IsBulb(cap) /\ \E net \in Nets : Commit("turn_on", <<>>, net, LB110_turn_on(Start(net)))
BulbTurnOff(cap) ==
    IsBulb(cap) /\ \E net \in Nets : Commit("turn_off", <<>>, net, LB110_turn_off(Start(net)))
BulbSetHsv(cap) ==
    IsBulb(cap) /\ \E net \in Nets, h \in HueSample, sa \in SaturationSample, v \in BrightnessSample :
        Commit("set_hsv", <<h, sa, v>>, net, LB110_set_hsv(Start(net), h, sa, v))
BulbSetHue(cap) ==
    IsBulb(cap) /\ \E net \in Nets, h \in HueSample :
        Commit("set_hue", h, net, LB110_set_hue(Start(net), h))
BulbSetSaturation(cap) ==
    IsBulb(cap) /\ \E net \in Nets, sa \in SaturationSample :
        Commit("set_saturation", sa, net, LB110_set_saturation(Start(net), sa))
BulbSetBrightness(cap) ==
    IsBulb(cap) /\ \E net \in Nets, b \in BrightnessSample :
        Commit("set_brightness", b, net, LB110_set_brightness(Start(net), b))
BulbSetColorTemp(cap) ==
    IsBulb(cap) /\ \E net \in Nets, ct \in ColorTempSample :
        Commit("set_color_temp", ct, net, LB110_set_color_temp(Start(net), ct))
BulbGetEmeterDayStats(cap) ==
    IsBulb(cap) /\ \E net \in Nets, month \in MonthSample :
        Commit("get_emeter_day_stats", month, net,
               LB110_get_emeter_day_stats(Start(net), month, 2020))
BulbEraseEmeterStats(cap) ==
    IsBulb(cap) /\ \E net \in Nets :
        Commit("erase_emeter_stats", <<>>, net, LB110_erase_emeter_stats(Start(net)))

\* impl Cloud for HS100 and for LB110
GetCloudInfo(cap) ==
    last.n < cap /\ \E net \in Nets :
        Commit("get_cloud_info", <<>>, net, get_info(Start(net), CloudNs(dev.kind)))
Bind(cap) ==
    last.n < cap /\ \E net \in Nets :
        Commit("bind", <<>>, net, bind(Start(net), CloudNs(dev.kind), "user", "pass"))
Unbind(cap) ==
    last.n < cap /\ \E net \in Nets :
        Commit("unbind", <<>>, net, unbind(Start(net), CloudNs(dev.kind)))
SetServerUrl(cap) ==
    last.n < cap /\ \E net \in Nets :
        Commit("set_server_url", <<>>, net, set_server_url(Start(net), CloudNs(dev.kind), "url"))


\* impl Sys for HS100 and for LB110, called with no delay
Reboot(cap) ==
    last.n < cap /\ \E net \in Nets :
        Commit("reboot", <<>>, net, reboot(Start(net), SystemNs(dev.kind), NoValue))
FactoryReset(cap) ==
    last.n < cap /\ \E net \in Nets :
        Commit("factory_reset", <<>>, net, reset(Start(net), SystemNs(dev.kind), NoValue))


Init ==
    InitHandle({NewPlug(f) : f \in FeatureSample} \cup {NewBulb(m, 1) : m \in ModelSample},
               HandleCaches)

Next ==
    \/ Tick
    \/ PlugIsOn(MaxCalls)
    \/ PlugIsLedOn(MaxCalls)
    \/ PlugTurnOn(MaxCalls)
    \/ PlugTurnOff(MaxCalls)
    \/ PlugTurnOnLed(MaxCalls)
    \/ PlugTurnOffLed(MaxCalls)
    \/ PlugGetTimerRules(MaxCalls)
    \/ PlugAddTimerRule(MaxCalls)
    \/ PlugEditTimerRule(MaxCalls)
    \/ PlugDeleteTimerRule(MaxCalls)
    \/ PlugDeleteAllTimerRules(MaxCalls)
    \/ PlugGetEmeterDayStats(MaxCalls)
    \/ PlugEraseEmeterStats(MaxCalls)
    \/ BulbIsOn(MaxCalls)
    \/ BulbGetHsv(MaxCalls)
    \/ BulbHue(MaxCalls)
    \/ BulbSaturation(MaxCalls)
    \/ BulbBrightness(MaxCalls)
    \/ BulbColorTemp(MaxCalls)
    \/ BulbTurnOn(MaxCalls)
    \/ BulbTurnOff(MaxCalls)
    \/ BulbSetHsv(MaxCalls)
    \/ BulbSetHue(MaxCalls)
    \/ BulbSetSaturation(MaxCalls)
    \/ BulbSetBrightness(MaxCalls)
    \/ BulbSetColorTemp(MaxCalls)
    \/ BulbGetEmeterDayStats(MaxCalls)
    \/ BulbEraseEmeterStats(MaxCalls)
    \/ GetCloudInfo(MaxCalls)
    \/ Bind(MaxCalls)
    \/ Unbind(MaxCalls)
    \/ SetServerUrl(MaxCalls)

Spec == Init /\ [][Next]_vars

\* a program that drives the colour temperature of a bulb, of a model that
\* valid_color_temp_range lists or of one it does not
InitBulb == InitHandle({NewBulb(m, 1) : m \in ModelSample \cup UnlistedModels}, HandleCaches)

NextBulb ==
    \/ Tick
    \/ BulbIsOn(MaxBulbCalls)
    \/ BulbTurnOff(MaxBulbCalls)
    \/ BulbColorTemp(MaxBulbCalls)
    \/ BulbSetColorTemp(MaxBulbCalls)

SpecBulb == InitBulb /\ [][NextBulb]_vars

\* a program that calls the setters of a bulb with values inside and outside
\* their ranges
SetHsvAny(cap) ==
    IsBulb(cap) /\ \E net \in Nets, h \in HueAny, sa \in SaturationAny, v \in BrightnessAny :
        Commit("set_hsv", <<h, sa, v>>, net, LB110_set_hsv(Start(net), h, sa, v))
SetHueAny(cap) ==
    IsBulb(cap) /\ \E net \in Nets, h \in HueAny :
        Commit("set_hue", h, net, LB110_set_hue(Start(net), h))
SetSaturationAny(cap) ==
    IsBulb(cap) /\ \E net \in Nets, sa \in SaturationAny :
        Commit("set_saturation", sa, net, LB110_set_saturation(Start(net), sa))
SetBrightnessAny(cap) ==
    IsBulb(cap) /\ \E net \in Nets, b \in BrightnessAny :
        Commit("set_brightness", b, net, LB110_set_brightness(Start(net), b))
SetColorTempAny(cap) ==
    IsBulb(cap) /\ \E net \in Nets, ct \in ColorTempAny :
        Commit("set_color_temp", ct, net, LB110_set_color_temp(Start(net), ct))
GetEmeterDayStatsAny(cap) ==
    IsBulb(cap) /\ \E net \in Nets, month \in MonthAny :
        Commit("get_emeter_day_stats", month, net,
               LB110_get_emeter_day_stats(Start(net), month, 2020))

InitSetters == InitHandle({NewBulb(m, 1) : m \in ModelSample}, HandleCaches)

NextSetters ==
    \/ Tick
    \/ SetHsvAny(MaxSetterCalls)
    \/ SetHueAny(MaxSetterCalls)
    \/ SetSaturationAny(MaxSetterCalls)
    \/ SetBrightnessAny(MaxSetterCalls)
    \/ SetColorTempAny(MaxSetterCalls)
    \/ GetEmeterDayStatsAny(MaxSetterCalls)

SpecSetters == InitSetters /\ [][NextSetters]_vars

\* a program that drives only the relay and the LED of a plug
InitPlug == InitHandle({NewPlug(f) : f \in FeatureSample}, HandleCaches)

NextPlug ==
    \/ Tick
    \/ PlugIsOn(MaxPlugCalls)
    \/ PlugIsLedOn(MaxPlugCalls)
    \/ PlugTurnOn(MaxPlugCalls)
    \/ PlugTurnOff(MaxPlugCalls)
    \/ PlugTurnOnLed(MaxPlugCalls)
    \/ PlugTurnOffLed(MaxPlugCalls)

SpecPlug == InitPlug /\ [][NextPlug]_vars

\* a program that reads and changes the rule table of a plug's timer
NextTimer ==
    \/ Tick
    \/ PlugGetTimerRules(MaxPlugCalls)
    \/ PlugAddTimerRule(MaxPlugCalls)
    \/ PlugDeleteAllTimerRules(MaxPlugCalls)

SpecTimer == InitPlug /\ [][NextTimer]_vars

\* impl Time for HS100 and LB110, impl Wlan for HS100 and LB110
GetTime(cap) ==
    /\ dev.kind \in DeviceKinds
    /\ last.n < cap
    /\ \E net \in Nets : Commit("time", <<>>, net, get_time(Start(net), TimeNs(dev.kind)))
GetTimezone(cap) ==
    /\ dev.kind \in DeviceKinds
    /\ last.n < cap
    /\ \E net \in Nets : Commit("timezone", <<>>, net, get_timezone(Start(net), TimeNs(dev.kind)))
GetScanInfo(cap) ==
    /\ dev.kind \in DeviceKinds
    /\ last.n < cap
    /\ \E net \in Nets, refresh \in BOOLEAN :
           Commit("get_scan_info", refresh, net, get_scan_info(Start(net), refresh, NoValue))

\* a program that reads the state, the time and the access points of a device
NextTime ==
    \/ Tick
    \/ PlugIsOn(MaxPlugCalls)
    \/ BulbIsOn(MaxPlugCalls)
    \/ GetTime(MaxPlugCalls)
    \/ GetTimezone(MaxPlugCalls)
    \/ GetScanInfo(MaxPlugCalls)

SpecTime == Init /\ [][NextTime]_vars


\* a program that reads through the cache of a handle and reboots or resets
\* the device
NextSys ==
    \/ Tick
    \/ PlugIsOn(MaxPlugCalls)
    \/ PlugGetEmeterDayStats(MaxPlugCalls)
    \/ BulbIsOn(MaxPlugCalls)
    \/ BulbGetEmeterDayStats(MaxPlugCalls)
    \/ GetCloudInfo(MaxPlugCalls)
    \/ Reboot(MaxPlugCalls)
    \/ FactoryReset(MaxPlugCalls)

SpecSys == Init /\ [][NextSys]_vars


(***************************************************************************)
(* proto.rs driven directly, against a device that answers with a script   *)
(***************************************************************************)
ScriptTexts == {TextOf[d] : d \in ScriptedDocs} \cup Garbage

\* the Proto of a handle, and the cache the handle holds beside it
InitProto == InitHandle({[kind |-> "scripted", reply |-> b] : b \in ScriptTexts}, HandleCaches)

\* the fates of the exchanges of a call, those that fail before the send among them
ProtoNets == {<<a, b>> : a \in Fates \cup Unsent, b \in Fates \cup Unsent}

\* Proto::send_request, as the handles and the command modules call it
Execute(cap) ==
    /\ dev.kind = "scripted"
    /\ last.n < cap
    /\ \E net \in ProtoNets, req \in ProtoRequests :
           Commit("execute", req, net, SendRequest(Start(net), req))

\* a read command of a handle that holds a cache:
\* cache.get_or_insert_with(request, |r| proto.send_request(r))
ExecuteRead(cap) ==
    /\ dev.kind = "scripted"
    /\ cache.on
    /\ last.n < cap
    /\ \E net \in ProtoNets, req \in ProtoRequests :
           Commit("execute_read", req, net, ReadThrough(Start(net), req))

NextProto == Execute(MaxCalls) \/ ExecuteRead(MaxCalls)

SpecProto == InitProto /\ [][NextProto]_vars

(***************************************************************************)
(* discover.rs and Proto::discover: one sweep of the broadcast domain. The *)
(* network is the environment: each receive yields a datagram of some      *)
(* address or an error, and at most MaxArrivals datagrams arrive.          *)
(***************************************************************************)
\* the tolerance of a Builder whose offline_tolerance(..) is not called
BuilderTolerance == offline_tolerance

\* discover: .offline_tolerance(3)
discover_offline_tolerance == 3

\* Builder::new: port: 9999
port == 9999

\* discover: proto::Builder::new([255, 255, 255, 255])
BroadcastAddr == <<255, 255, 255, 255>>

\* {}
EmptyObject == JObj(<<>>)

\* discover: let query = json!({ .. })
DiscoverQuery ==
    JObj(("system" :> JObj("get_sysinfo" :> EmptyObject))
         @@ ("emeter" :> JObj("get_realtime" :> EmptyObject))
         @@ ("smartlife.iot.dimmer" :> JObj("get_dimmer_parameters" :> EmptyObject))
         @@ ("smartlife.iot.common.emeter" :> JObj("get_realtime" :> EmptyObject))
         @@ ("smartlife.iot.smartbulb.lightingservice" :> JObj("get_light_state" :> EmptyObject)))

\* discover: serde_json::to_vec(&query).unwrap()
DiscoverRequest == ToVec(DiscoverQuery)

\* the sysinfo objects the devices of the network answer with
SysinfoSample ==
    {[type |-> JStr("IOT.SMARTPLUGSWITCH")],
     [type |-> JStr("IOT.SMARTPLUGSWITCH"), children |-> JArr(<<>>)],
     [mic_type |-> JStr("IOT.SMARTBULB")],
     [type |-> JStr("Lamp")],
     [type |-> JNull],
     [alias |-> JStr("Lamp")]}

\* the documents that arrive: a sysinfo under system.get_sysinfo, and an answer
\* without it
DiscoverDocs ==
    {Envelope("system", "get_sysinfo", JObj(sysinfo)) : sysinfo \in SysinfoSample}
    \cup {Envelope("emeter", "get_realtime", ErrCode0)}

DiscoverTextOf == [d \in DiscoverDocs |-> ToVec(d)]

\* the plaintexts that arrive: the texts of the documents, and one that is no JSON
DiscoverTexts == Range(DiscoverTextOf) \cup {<<123>>}

\* the addresses that answer
Addrs == {"10.0.0.1", "10.0.0.2"}

\* what socket.recv_from returns: a datagram of an address, or an error
Arrivals == {[ok |-> TRUE, addr |-> a, bytes |-> encrypt(t)] : a \in Addrs, t \in DiscoverTexts}
RecvErrors == {[ok |-> FALSE, kind |-> k] : k \in {"WouldBlock", "ConnectionReset"}}

\* serde_json::from_slice over the plaintexts that arrive
DiscoverMemo == [doc |-> Table(Parsed(DiscoverTextOf))]

\* Value::get(&str)
Get(v, k) == IF v.t = "obj" /\ k \in DOMAIN v.m THEN v.m[k] ELSE NoValue

\* Value::to_string of a type indicator (the quotes of a string left out)
ValueToString(v) == CASE v.t = "str" -> v.s [] v.t = "null" -> "null"

\* str::to_lowercase over the strings the devices report
to_lowercase(str) ==
    CASE str = "IOT.SMARTPLUGSWITCH" -> "iot.smartplugswitch"
      [] str = "IOT.SMARTBULB" -> "iot.smartbulb"
      [] str = "Lamp" -> "lamp"
      [] str = "Iot.SmartBulb" -> "iot.smartbulb"
      [] OTHER -> str

\* a device_from that looks at mic_type first
device_from_mic_type_first(value) ==
    LET sysinfo == Index(Index(value, "system"), "get_sysinfo")
        Kind(device_type) ==
            IF StrContains(device_type, "plug") /\ Get(sysinfo, "children") # NoValue
            THEN Ok("Strip")
            ELSE IF StrContains(device_type, "plug") THEN Ok("Plug")
            ELSE IF StrContains(device_type, "bulb") THEN Ok("Bulb")
            ELSE Ok("Unknown")
    IN  IF Get(value, "system") # NoValue /\ Get(Index(value, "system"), "get_sysinfo") # NoValue
        THEN IF Get(sysinfo, "mic_type") # NoValue
             THEN Kind(to_lowercase(ValueToString(Index(sysinfo, "mic_type"))))
             ELSE IF Get(sysinfo, "type") # NoValue
             THEN Kind(to_lowercase(ValueToString(Index(sysinfo, "type"))))
             ELSE Panic
        ELSE Panic

\* device_from: the DeviceKind of a parsed reply, or the panic! of lines 80 and 83
device_from(value) ==
    LET sysinfo == Index(Index(value, "system"), "get_sysinfo")
        Kind(device_type) ==
            IF StrContains(device_type, "plug") /\ Get(sysinfo, "children") # NoValue
            THEN Ok("Strip")
            ELSE IF StrContains(device_type, "plug") THEN Ok("Plug")
            ELSE IF StrContains(device_type, "bulb") THEN Ok("Bulb")
            ELSE Ok("Unknown")
    IN  IF Get(value, "system") # NoValue /\ Get(Index(value, "system"), "get_sysinfo") # NoValue
        THEN IF Get(sysinfo, "type") # NoValue
             THEN Kind(to_lowercase(ValueToString(Index(sysinfo, "type"))))
             ELSE IF Get(sysinfo, "mic_type") # NoValue
             THEN Kind(to_lowercase(ValueToString(Index(sysinfo, "mic_type"))))
             ELSE Panic
        ELSE Panic

\* an entry that the later value replaces
EntryInsert(map, k, v) == [x \in DOMAIN map \cup {k} |-> IF x = k THEN v ELSE map[x]]

\* HashMap::entry(k).or_insert_with(|| v)
EntryOrInsert(map, k, v) == IF k \in DOMAIN map THEN map ELSE map @@ (k :> v)

\* discover, lines 61-68: every response is parsed with unwrap() and classified;
\* device_from never returns Err, so the loop ends in Ok(devices) or in a panic
Devices(memo, responses) ==
    LET Device(value) == IF value = SyntaxError THEN Panic ELSE device_from(value)
        device == [ip \in DOMAIN responses |-> Device(FromSlice(memo, responses[ip]))]
    IN  IF \E ip \in DOMAIN responses : ~device[ip].ok THEN Panic
        ELSE Ok([ip \in DOMAIN responses |-> device[ip].v])

\* Proto::discover, lines 145-147: the loop `for _ in 0..self.offline_tolerance`
\* is over once n probes are out
AfterSends(n) == IF n >= discover_offline_tolerance THEN "recv" ELSE "send"

\* a receive loop that returns with the first datagram
OnRecvFirst(d, r) ==
    IF r.ok
    THEN [d EXCEPT !.recvd = Append(@, [addr |-> r.addr, bytes |-> r.bytes]),
                   !.responses = EntryOrInsert(@, r.addr, decrypt(Truncate(r.bytes, buffer_size))),
                   !.pc = "classify", !.err = "WouldBlock",
                   !.returned = Ok(EntryOrInsert(d.responses, r.addr, decrypt(Truncate(r.bytes, buffer_size))))]
    ELSE IF r.kind = "WouldBlock"
    THEN [d EXCEPT !.pc = "classify", !.err = r.kind, !.returned = Ok(d.responses)]
    ELSE [d EXCEPT !.pc = "done", !.err = r.kind, !.returned = Err("Io"), !.result = Err("Io")]

\* a receive loop that any error ends with the responses it has
OnRecvAnyErrorEnds(d, r) ==
    IF r.ok
    THEN [d EXCEPT !.recvd = Append(@, [addr |-> r.addr, bytes |-> r.bytes]),
                   !.responses = EntryOrInsert(@, r.addr, decrypt(Truncate(r.bytes, buffer_size)))]
    ELSE [d EXCEPT !.pc = "classify", !.err = r.kind, !.returned = Ok(d.responses)]

\* Proto::discover, lines 152-165: one turn of the receive loop on what
\* recv_from returned
OnRecv(d, r) ==
    IF r.ok
    THEN [d EXCEPT !.recvd = Append(@, [addr |-> r.addr, bytes |-> r.bytes]),
                   !.responses = EntryOrInsert(@, r.addr, decrypt(Truncate(r.bytes, buffer_size)))]
    ELSE IF r.kind = "WouldBlock"
    THEN [d EXCEPT !.pc = "classify", !.err = r.kind, !.returned = Ok(d.responses)]
    ELSE [d EXCEPT !.pc = "done", !.err = r.kind, !.returned = Err("Io"), !.result = Err("Io")]

\* the state of a discover() call that has not bound its socket yet
StartDiscovery ==
    [pc |-> "start", sends |-> <<>>, recvd |-> <<>>, responses |-> <<>>,
     err |-> "none", returned |-> NoValue, result |-> NoValue]

\* a step of discover() that fails with an io::Error before the receive loop
Abort(d) == [d EXCEPT !.pc = "done", !.returned = Err("Io"), !.result = Err("Io")]

InitDiscover ==
    /\ cin = <<>>
    /\ cbuf = <<>>
    /\ cops = <<>>
    /\ cache = NoCache
    /\ now = 0
    /\ dev = [kind |-> "none"]
    /\ last = [op |-> "new"]
    /\ prev = [op |-> "new"]
    /\ disc = StartDiscovery
    /\ sock = NoSocket
    /\ conf = NoBuilder

\* Proto::discover, lines 139-143: UdpSocket::bind(..)?, and the socket options
DiscoverBind ==
    /\ disc.pc = "start"
    /\ \E bound \in BOOLEAN :
        disc' = IF bound THEN [disc EXCEPT !.pc = AfterSends(0)] ELSE Abort(disc)
    /\ UNCHANGED <<cipherVars, sock, conf, cache, now, dev, last, prev>>

\* Proto::discover, lines 145-147: socket.send_to(&crypto::encrypt(req), &self.addr)?
DiscoverSend ==
    /\ disc.pc = "send"
    /\ \E sent \in BOOLEAN :
        disc' = IF sent
                THEN [disc EXCEPT
                        !.sends = Append(@, [to |-> BroadcastAddr, port |-> port,
                                             bytes |-> encrypt(DiscoverRequest)]),
                        !.pc = AfterSends(Len(disc.sends) + 1)]
                ELSE Abort(disc)
    /\ UNCHANGED <<cipherVars, sock, conf, cache, now, dev, last, prev>>

\* Proto::discover, lines 151-166: socket.recv_from(&mut buf) and its match
DiscoverRecv ==
    /\ disc.pc = "recv"
    /\ \E r \in Arrivals \cup RecvErrors :
        /\ r.ok => Len(disc.recvd) < MaxArrivals
        /\ disc' = OnRecv(disc, r)
    /\ UNCHANGED <<cipherVars, sock, conf, cache, now, dev, last, prev>>

\* discover, lines 61-68: the loop over the responses
DiscoverClassify ==
    /\ disc.pc = "classify"
    /\ disc' = [disc EXCEPT !.pc = "done",
                            !.result = Devices(DiscoverMemo, disc.responses)]
    /\ UNCHANGED <<cipherVars, sock, conf, cache, now, dev, last, prev>>

NextDiscover == DiscoverBind \/ DiscoverSend \/ DiscoverRecv \/ DiscoverClassify

SpecDiscover == InitDiscover /\ [][NextDiscover]_vars

\* the call is scheduled until it returns: no step of it waits without bound,
\* a receive returns within the read timeout
SpecDiscoverLive == SpecDiscover /\ WF_vars(NextDiscover)

(***************************************************************************)
(* device_from applied to one parsed response: its sysinfo holds type,     *)
(* mic_type, both or neither, each a string in some case or null, with or  *)
(* without children                                                        *)
(***************************************************************************)
\* the values of a type indicator
IndicatorSample ==
    {JNull, JStr("IOT.SMARTPLUGSWITCH"), JStr("iot.smartplugswitch"), JStr("IOT.SMARTBULB"),
     JStr("Iot.SmartBulb"), JStr("Lamp")}

\* a field that is absent, or present with one of the values
Optional(field, values) == {<<>>} \cup {field :> v : v \in values}

\* the responses device_from is given
ClassifyInputs ==
    {Envelope("system", "get_sysinfo", JObj(t @@ m @@ c)) :
        t \in Optional("type", IndicatorSample),
        m \in Optional("mic_type", IndicatorSample),
        c \in Optional("children", {JArr(<<>>)})}

InitClassify ==
    /\ cin = <<>>
    /\ cbuf = <<>>
    /\ cops = <<>>
    /\ cache = NoCache
    /\ now = 0
    /\ dev = [kind |-> "none"]
    /\ last = [op |-> "new"]
    /\ prev = [op |-> "new"]
    /\ disc \in {[pc |-> "classify", value |-> v, result |-> NoValue] : v \in ClassifyInputs}
    /\ sock = NoSocket
    /\ conf = NoBuilder

\* let device = device_from(ip, &value)
Classify ==
    /\ disc.pc = "classify"
    /\ disc' = [disc EXCEPT !.pc = "classified", !.result = device_from(disc.value)]
    /\ UNCHANGED <<cipherVars, sock, conf, cache, now, dev, last, prev>>

NextClassify == Classify

SpecClassify == InitClassify /\ [][NextClassify]_vars

(***************************************************************************)
(* Proto::send_bytes seen from the network: the socket of each exchange,   *)
(* the port the system gives it, and the replies that travel. A reply is   *)
(* addressed to the port its request came from and may arrive at any time, *)
(* or never; it is told apart here by the number of the exchange it        *)
(* answers.                                                                *)
(***************************************************************************)
\* the ports the system hands out for UdpSocket::bind("0.0.0.0:0")
EphemeralPorts == {49152, 49153}

\* a Proto before its first exchange
IdleSocket ==
    [pc |-> "idle", open |-> {}, port |-> 0, n |-> 0, sent |-> 0, flight |-> {},
     res |-> NoValue]

\* send_bytes returns: `socket` goes out of scope and the UdpSocket is closed
Return(k, res) ==
    [k EXCEPT !.pc = "idle", !.open = @ \ {k.port}, !.port = 0, !.res = res]

InitSocket ==
    /\ cin = <<>>
    /\ cbuf = <<>>
    /\ cops = <<>>
    /\ cache = NoCache
    /\ now = 0
    /\ dev = [kind |-> "none"]
    /\ last = [op |-> "new"]
    /\ prev = [op |-> "new"]
    /\ disc = NoDiscovery
    /\ sock = IdleSocket
    /\ conf = NoBuilder

\* send_bytes, lines 186-190: UdpSocket::bind("0.0.0.0:0")? and the socket
\* options; the system picks any port that is not bound
SocketBind ==
    /\ sock.pc = "idle"
    /\ sock.n < MaxExchanges
    /\ \/ \E p \in EphemeralPorts \ sock.open :
            sock' = [sock EXCEPT !.pc = IF offline_tolerance > 0 THEN "send" ELSE "recv",
                                 !.open = @ \cup {p}, !.port = p, !.n = @ + 1,
                                 !.sent = 0, !.res = NoValue]
       \/ sock' = [sock EXCEPT !.n = @ + 1, !.res = Err("Io")]
    /\ UNCHANGED <<cipherVars, disc, conf, cache, now, dev, last, prev>>

\* send_bytes, lines 192-194: socket.send_to(..)?; the device answers each
\* datagram to the port it came from
SocketSend ==
    /\ sock.pc = "send"
    /\ \/ sock' = [sock EXCEPT
                     !.sent = @ + 1,
                     !.pc = IF sock.sent + 1 >= offline_tolerance THEN "recv" ELSE "send",
                     !.flight = @ \cup {[port |-> sock.port, of |-> sock.n]}]
       \/ sock' = Return(sock, Err("Io"))
    /\ UNCHANGED <<cipherVars, disc, conf, cache, now, dev, last, prev>>

\* send_bytes, lines 196-200: socket.recv(&mut buf) returns a datagram that has
\* reached the port of the socket, or fails (the read timeout included)
SocketRecv ==
    /\ sock.pc = "recv"
    /\ \/ \E d \in sock.flight :
            /\ d.port = sock.port
            /\ sock' = Return([sock EXCEPT !.flight = @ \ {d}], Ok(d.of))
       \/ sock' = Return(sock, Err("Io"))
    /\ UNCHANGED <<cipherVars, disc, conf, cache, now, dev, last, prev>>

\* the network loses a reply, or delivers it to a port that no socket is bound to
NetworkDrop ==
    /\ sock.pc # "none"
    /\ \E d \in sock.flight : sock' = [sock EXCEPT !.flight = @ \ {d}]
    /\ UNCHANGED <<cipherVars, disc, conf, cache, now, dev, last, prev>>

NextSocket == SocketBind \/ SocketSend \/ SocketRecv \/ NetworkDrop

SpecSocket == InitSocket /\ [][NextSocket]_vars

\* another address of the network sends a datagram to the port of the socket:
\* the socket is bound to 0.0.0.0 and is not connected, so the system queues
\* it like any other; it answers no exchange (of is 0)
ForeignSend ==
    /\ sock.pc \in {"send", "recv"}
    /\ sock' = [sock EXCEPT !.flight = @ \cup {[port |-> sock.port, of |-> 0]}]
    /\ sock' # sock
    /\ UNCHANGED <<cipherVars, disc, conf, cache, now, dev, last, prev>>

NextOpenSocket == SocketBind \/ SocketSend \/ SocketRecv \/ NetworkDrop \/ ForeignSend

SpecOpenSocket == InitSocket /\ [][NextOpenSocket]_vars

(***************************************************************************)
(* config.rs: ConfigBuilder and the Config it builds. A Duration is a      *)
(* number of seconds.                                                      *)
(***************************************************************************)
\* Option::None and Option::Some
None == [some |-> FALSE]

Some(v) == [some |-> TRUE, v |-> v]

\* Option::unwrap_or
unwrap_or(opt, default) == IF opt.some THEN opt.v ELSE default

\* a default that enables the cache and sets no TTL
DefaultCacheEnabled == [enable_cache |-> TRUE, ttl |-> None, initial_capacity |-> None]

\* impl Default for CacheConfig
DefaultCacheConfig == [enable_cache |-> FALSE, ttl |-> None, initial_capacity |-> None]

\* ConfigBuilder::new; calls is the list of the setters called since, with
\* their arguments, and built the Config of the last build
ConfigBuilderNew(host) ==
    [pc |-> "builder",
     host |-> host,
     port |-> 9999,
     read_timeout |-> None,
     write_timeout |-> None,
     cache_config |-> DefaultCacheConfig,
     buffer_size |-> None,
     calls |-> <<>>,
     built |-> None]

\* a build that takes the port of a new builder
BuildDefaultPort(b) ==
    [addr |-> [ip |-> b.host, port |-> 9999],
     read_timeout |-> unwrap_or(b.read_timeout, 3),
     write_timeout |-> unwrap_or(b.write_timeout, 3),
     cache_config |-> b.cache_config,
     buffer_size |-> unwrap_or(b.buffer_size, 4 * 1024)]

\* ConfigBuilder::build
build(b) ==
    [addr |-> [ip |-> b.host, port |-> b.port],
     read_timeout |-> unwrap_or(b.read_timeout, 3),
     write_timeout |-> unwrap_or(b.write_timeout, 3),
     cache_config |-> b.cache_config,
     buffer_size |-> unwrap_or(b.buffer_size, 4 * 1024)]

\* the getters of Config
ConfigPort(c) == c.addr.port

ConfigReadTimeout(c) == c.read_timeout

ConfigWriteTimeout(c) == c.write_timeout

ConfigCacheEnabled(c) == c.cache_config.enable_cache

ConfigCacheTtl(c) == c.cache_config.ttl

ConfigCacheInitialCapacity(c) == c.cache_config.initial_capacity

ConfigBufferSize(c) == c.buffer_size

PortSample == {9999, 8080}

DurationSample == {1, 3}

CapacitySample == {None, Some(2048)}

BufferSample == {4096, 5120}

Called(setter, arg) == [conf EXCEPT !.calls = Append(@, [setter |-> setter, arg |-> arg])]

InitConfig ==
    /\ conf \in {ConfigBuilderNew(host) : host \in Addrs}
    /\ cin = <<>>
    /\ cbuf = <<>>
    /\ cops = <<>>
    /\ cache = [on |-> FALSE]
    /\ now = 0
    /\ dev = [kind |-> "none"]
    /\ last = [op |-> "new"]
    /\ prev = [op |-> "new"]
    /\ disc = NoDiscovery
    /\ sock = NoSocket

\* ConfigBuilder::with_port
WithPort ==
    /\ Len(conf.calls) < MaxSetters
    /\ \E p \in PortSample :
          conf' = [Called("with_port", p) EXCEPT !.port = p]
    /\ UNCHANGED <<cipherVars, disc, sock, cache, now, dev, last, prev>>

\* ConfigBuilder::with_read_timeout
WithReadTimeout ==
    /\ Len(conf.calls) < MaxSetters
    /\ \E duration \in DurationSample :
          conf' = [Called("with_read_timeout", duration) EXCEPT !.read_timeout = Some(duration)]
    /\ UNCHANGED <<cipherVars, disc, sock, cache, now, dev, last, prev>>

\* ConfigBuilder::with_write_timeout
WithWriteTimeout ==
    /\ Len(conf.calls) < MaxSetters
    /\ \E duration \in DurationSample :
          conf' = [Called("with_write_timeout", duration) EXCEPT !.write_timeout = Some(duration)]
    /\ UNCHANGED <<cipherVars, disc, sock, cache, now, dev, last, prev>>

\* ConfigBuilder::with_cache_enabled
WithCacheEnabled ==
    /\ Len(conf.calls) < MaxSetters
    /\ \E ttl \in DurationSample, initial_capacity \in CapacitySample :
          conf' = [Called("with_cache_enabled", [ttl |-> ttl, initial_capacity |-> initial_capacity])
                      EXCEPT !.cache_config = [enable_cache |-> TRUE,
                                               ttl |-> Some(ttl),
                                               initial_capacity |-> initial_capacity]]
    /\ UNCHANGED <<cipherVars, disc, sock, cache, now, dev, last, prev>>

\* ConfigBuilder::with_buffer_size
WithBufferSize ==
    /\ Len(conf.calls) < MaxSetters
    /\ \E size \in BufferSample :
          conf' = [Called("with_buffer_size", size) EXCEPT !.buffer_size = Some(size)]
    /\ UNCHANGED <<cipherVars, disc, sock, cache, now, dev, last, prev>>

\* ConfigBuilder::build, which leaves the builder usable
Build ==
    /\ conf' = [conf EXCEPT !.built = Some([config |-> build(conf), calls |-> conf.calls])]
    /\ conf' # conf
    /\ UNCHANGED <<cipherVars, disc, sock, cache, now, dev, last, prev>>

NextConfig ==
    \/ WithPort
    \/ WithReadTimeout
    \/ WithWriteTimeout
    \/ WithCacheEnabled
    \/ WithBufferSize
    \/ Build

SpecConfig == InitConfig /\ [][NextConfig]_vars

(***************************************************************************)
(* A handle built from a Config: HS100::with_config and LB110::with_config *)
(* hand the buffer size to the Proto and build the cache the Config asks   *)
(* for. The device is scripted, and some of its replies are longer than    *)
(* the buffer.                                                             *)
(***************************************************************************)
\* the buffer sizes given to with_buffer_size: the shortest reply of a document
\* fits the first, every reply of one namespace but the longest the second
SmallBuffers == {13, 20}

\* HS100::with_config: let cache = if cache_config.enable_cache {
\*     let ttl = cache_config.ttl.unwrap(); .. Some(RefCell::new(cache)) } else { None }
\* with the capacity, which no call shows, left out
HandleCache(config) ==
    IF ~config.cache_config.enable_cache THEN NoCache
    ELSE IF config.cache_config.ttl.some THEN with_ttl(config.cache_config.ttl.v)
    ELSE Panic

\* the builder after the setters were called on it and build() was
Built(b) == [b EXCEPT !.built = Some([config |-> build(b), calls |-> b.calls])]

\* Config::for_host(host).with_buffer_size(size), with or without
\* .with_cache_enabled(3 s, None), then .build()
BufferConfigs ==
    {Built([ConfigBuilderNew("10.0.0.1") EXCEPT !.buffer_size = Some(size), !.cache_config = cc]) :
        size \in SmallBuffers,
        cc \in {DefaultCacheConfig}
                \cup {[enable_cache |-> TRUE, ttl |-> Some(3), initial_capacity |-> None]}}

\* the Config a handle was built from
ConfigOf(c) == c.built.v.config

InitBuffer ==
    /\ cin = <<>>
    /\ cbuf = <<>>
    /\ cops = <<>>
    /\ now = 0
    /\ dev \in {[kind |-> "scripted", reply |-> b] : b \in ScriptTexts}
    /\ conf \in BufferConfigs
    /\ cache = HandleCache(ConfigOf(conf))
    /\ last = [op |-> "new", ok |-> TRUE, n |-> 0, evicted |-> FALSE]
    /\ prev = [op |-> "new", ok |-> TRUE, evicted |-> FALSE]
    /\ disc = NoDiscovery
    /\ sock = NoSocket

\* the world of a call on a handle built from a Config
StartWith(net, config) ==
    [cache |-> cache, dev |-> dev, now |-> now, net |-> net, sent |-> <<>>, log |-> <<>>,
     memo |-> Memos, buffer_size |-> ConfigBufferSize(config)]

\* Proto::send_request on the Proto of such a handle
ExecuteBuffered(cap) ==
    /\ dev.kind = "scripted"
    /\ last.n < cap
    /\ \E net \in ProtoNets, req \in ProtoRequests :
           Commit("execute", req, net, SendRequest(StartWith(net, ConfigOf(conf)), req))

\* a read command of such a handle
ExecuteReadBuffered(cap) ==
    /\ dev.kind = "scripted"
    /\ last.n < cap
    /\ \E net \in ProtoNets, req \in ProtoRequests :
           Commit("execute_read", req, net, ReadThrough(StartWith(net, ConfigOf(conf)), req))

NextBuffer == ExecuteBuffered(MaxCalls) \/ ExecuteReadBuffered(MaxCalls)

SpecBuffer == InitBuffer /\ [][NextBuffer]_vars

(***************************************************************************)
(* What the log of a call shows                                            *)
(***************************************************************************)
\* the positions of the events of one kind
EventsOf(log, kind) == {i \in 1..Len(log) : log[i].e = kind}

\* the call ended on a cache hit for the key: nothing was sent after the lookup
EndedOnHit(log, key) ==
    /\ log # <<>>
    /\ log[Len(log)].e = "get"
    /\ log[Len(log)].key = RequestHash(key)
    /\ log[Len(log)].hit

\* some lookup of the call was answered from the cache
AnsweredFromCache(log) == \E i \in EventsOf(log, "get") : log[i].hit

\* the commands that change the device
MutatingCommands ==
    {"set_relay_state", "set_led_off", "transition_light_state", "add_rule", "edit_rule",
     "delete_rule", "delete_all_rules", "bind", "unbind", "set_server_url",
     "erase_emeter_stat"}

\* the exchanges of mutating commands a call made
Writes(log) == {i \in EventsOf(log, "request") : log[i].key[2] \in MutatingCommands}


(***************************************************************************)
(* The cache key and the invalidation, as the handles use them             *)
(***************************************************************************)
\* the entries stored for get_daystat of the device's emeter
DayStatEntries == IF cache.on
                  THEN {e \in cache.store : /\ e.key.target = EmeterNs(dev.kind)
                                            /\ e.key.command = "get_daystat"}
                  ELSE {}

\* C3: two requests with the same (namespace, command) and different arguments
\* are the same cache key: when a value is cached for get_daystat and younger
\* than the TTL, get_emeter_day_stats asked for another month, once it reaches
\* the lookup, returns that cached value and sends nothing to the device.
C3_KeyIgnoresArgument ==
    [][\A e \in DayStatEntries :
          (/\ last'.n = last.n + 1
           /\ last'.op = "get_emeter_day_stats"
           /\ e.key.arg # MonthYear(last'.arg, 2020)
           /\ now - e.at < cache.ttl
           /\ \E i \in EventsOf(last'.log, "get") : last'.log[i].key = RequestHash(e.key))
          => /\ last'.res = Ok(e.val)
             /\ EndedOnHit(last'.log, e.key)]_vars

\* the statistics of month 1 were returned to a call that asked for month 2
C3_Witness ==
    /\ last.op = "get_emeter_day_stats"
    /\ last.arg = 2
    /\ last.res = Ok(DayStatsOf(Month(1)))
    /\ EndedOnHit(last.log, Request(EmeterNs(dev.kind), "get_daystat", NoValue))

\* C5: every mutating command removes the cache entries of its namespace before
\* its datagram is sent, performs the exchange without consulting the cache and
\* never inserts its response; the entries of that namespace are absent after
\* the call whether the exchange succeeded or failed.
C5_InvalidateBeforeWrite ==
    last.op # "new" =>
        \A i \in Writes(last.log) :
            /\ cache.on => \E j \in EventsOf(last.log, "retain") :
                               j < i /\ last.log[j].ns = last.log[i].key[1]
            /\ \A k \in last.log[i].cached : k[1] # last.log[i].key[1]
            /\ \A j \in EventsOf(last.log, "get") \cup EventsOf(last.log, "insert") :
                   last.log[j].key # last.log[i].key
            /\ cache.on => \A e \in cache.store : e.key.target # last.log[i].key[1]

\* a mutating command whose exchange failed after its invalidation had removed
\* an entry
C5_Witness ==
    /\ last.op # "new"
    /\ cache.on
    /\ ~last.ok
    /\ last.evicted
    /\ Writes(last.log) # {}

(***************************************************************************)
(* Reads that follow writes on one handle                                  *)
(***************************************************************************)
BulbWrites ==
    {"turn_on", "turn_off", "set_hsv", "set_hue", "set_saturation", "set_brightness",
     "set_color_temp"}

BulbReads == {"is_on", "hsv", "hue", "saturation", "brightness", "color_temp"}

\* what a read of the bulb returns when it is answered from the device as it is
BulbNow(op) ==
    CASE op = "is_on" -> dev.on_off = 1
      [] op = "hsv" -> HSV(BulbHsv(dev))
      [] op = "hue" -> dev.hue
      [] op = "saturation" -> dev.saturation
      [] op = "brightness" -> dev.brightness
      [] op = "color_temp" -> dev.color_temp

\* C6, as the specification states it: on a bulb handle, after a successful
\* light-state write, the next is_on, hsv, hue, saturation, brightness or
\* color_temp returns the state the device has after the write.
C6_Original ==
    (/\ dev.kind = "bulb"
     /\ prev.op \in BulbWrites
     /\ prev.ok
     /\ last.op \in BulbReads
     /\ last.ok)
    => last.res.v = BulbNow(last.op)

PlugWrites == {"turn_on", "turn_off", "turn_on_led", "turn_off_led"}

PlugReads == {"is_on", "is_led_on"}

\* what a read of the plug returns when it is answered from the device as it is
PlugNow(op) == IF op = "is_on" THEN dev.relay_state = 1 ELSE dev.led_off = 0

\* what the read that follows a write must return
PlugExpected(write) == write \in {"turn_on", "turn_on_led"}

\* the read a write is followed by in the claim
PlugReadOf(write) == IF write \in {"turn_on", "turn_off"} THEN "is_on" ELSE "is_led_on"

\* C7: on a plug handle, with or without a cache, after turn_on returns Ok the
\* next is_on returns true, after turn_off false, and after turn_on_led /
\* turn_off_led the next is_led_on returns true / false; the read that follows a
\* write is never answered from the cache, and it succeeds when the network
\* carries its exchange.
C7_PlugReadAfterWrite ==
    (/\ dev.kind = "plug"
     /\ prev.op \in PlugWrites
     /\ prev.ok
     /\ last.op \in PlugReads)
    => /\ ~AnsweredFromCache(last.log)
       /\ last.net = <<"ok">> => last.ok
       /\ last.ok => last.res.v = PlugNow(last.op)
       /\ (last.ok /\ last.op = PlugReadOf(prev.op)) => last.res.v = PlugExpected(prev.op)

\* is_on returned true after a turn_on that had removed the cached sysinfo
C7_Witness ==
    /\ dev.kind = "plug"
    /\ cache.on
    /\ prev.op = "turn_on"
    /\ prev.ok
    /\ prev.evicted
    /\ last.op = "is_on"
    /\ last.ok
    /\ last.res.v = TRUE

(***************************************************************************)
(* The result of one exchange                                              *)
(***************************************************************************)
\* C10: given a reply that decrypts to {namespace: {command: R}}, send_request
\* returns exactly R, whatever other top-level namespaces the reply contains.
C10_ExecuteReturnsResult ==
    \A d \in ScriptedDocs :
        (/\ last.op = "execute"
         /\ last.net = <<"ok">>
         /\ dev.reply = TextOf[d]
         /\ last.arg.target \in DOMAIN d.m
         /\ last.arg.command \in DOMAIN d.m[last.arg.target].m)
        => last.res = Ok(d.m[last.arg.target].m[last.arg.command])

\* {"alias": "Lamp"} was returned from a reply that held a second namespace
C10_Witness ==
    /\ last.op = "execute"
    /\ last.arg = Request("system", "get_sysinfo", NoValue)
    /\ last.res = Ok(JObj([alias |-> JStr("Lamp")]))
    /\ \E d \in ScriptedDocs : dev.reply = TextOf[d] /\ Cardinality(DOMAIN d.m) = 2


(***************************************************************************)
(* The datagram of a request, and the errors of an exchange                *)
(***************************************************************************)
\* the calls that drive Proto::send_request directly
ExecuteOps == {"execute", "execute_read"}

\* the last call made one exchange, whose datagram reached the network
Exchanged == last.op \in ExecuteOps /\ Len(last.sent) > 0

\* the reply of the scripted device is the text of a document
ReplyDocs == {d \in ScriptedDocs : dev.reply = TextOf[d]}

\* C11 as stated: the datagram of execute("system", "get_sysinfo", null)
\* decrypts to {"system":{"get_sysinfo":{}}}.
C11_Original ==
    (Exchanged /\ last.arg = Request("system", "get_sysinfo", NoValue))
    => decrypt(last.sent[1]) = ToVec(Envelope("system", "get_sysinfo", JObj(<<>>)))

\* C11, amended: the datagram of a request with no argument decrypts to
\* {"<namespace>":{"<command>":null}}: the payload is the cipher-encrypted JSON
\* object with one namespace key holding one command key, without a length
\* header, and one such datagram is sent.
C11_DatagramOfRequest ==
    (Exchanged /\ last.arg.arg = NoValue)
    => /\ Len(last.sent) = 1
       /\ decrypt(last.sent[1]) = ToVec(Envelope(last.arg.target, last.arg.command, JNull))
       /\ decrypt(last.sent[1]) \in DOMAIN DocOf
       /\ LET doc == DocOf[decrypt(last.sent[1])]
          IN  /\ DOMAIN doc.m = {last.arg.target}
              /\ DOMAIN doc.m[last.arg.target].m = {last.arg.command}
              /\ doc.m[last.arg.target].m[last.arg.command] = JNull

\* execute("system", "get_sysinfo", null) has sent its datagram
C11_Witness ==
    /\ Exchanged
    /\ last.arg = Request("system", "get_sysinfo", NoValue)
    /\ decrypt(last.sent[1]) \in DOMAIN DocOf

\* C12: a failure to bind, send or receive makes execute return an Io error and
\* an unparsable reply a Json error; either way the call made one exchange
\* attempt, sent at most one datagram and inserted nothing in the cache.
C12_ExchangeErrors ==
    (last.op \in ExecuteOps /\ last.net # <<>>)
    => /\ last.net[1] # "ok" => last.res = Err("Io")
       /\ (last.net[1] = "ok" /\ dev.reply \in Garbage) => last.res = Err("Json")
       /\ (last.net[1] # "ok" \/ dev.reply \in Garbage)
          => /\ Cardinality(EventsOf(last.log, "request")) = 1
             /\ Len(last.net) = 1
             /\ Len(last.sent) <= 1
             /\ last.net[1] \in Unsent => last.sent = <<>>
             /\ EventsOf(last.log, "insert") = {}
             /\ last.op = "execute_read" => RequestHash(last.arg) \notin CachedKeys(cache)

\* a read through the cache met an unparsable reply, and another a lost reply
C12_Witness ==
    /\ last.op = "execute_read"
    /\ last.net = <<"ok">>
    /\ dev.reply \in Garbage
    /\ last.res = Err("Json")
    /\ prev.op = "execute_read"
    /\ ~prev.ok

\* C13 as stated: a reply that parses but lacks the namespace key or the
\* command key of the request makes execute return a serialization error, and
\* nothing is cached.
C13_Original ==
    \A d \in ReplyDocs :
        (/\ last.op \in ExecuteOps
         /\ last.net = <<"ok">>
         /\ \/ last.arg.target \notin DOMAIN d.m
            \/ last.arg.command \notin DOMAIN d.m[last.arg.target].m)
        => /\ last.res = Err("Json")
           /\ EventsOf(last.log, "insert") = {}



(***************************************************************************)
(* Discovery                                                               *)
(***************************************************************************)
\* the addresses a datagram has been received from
ReceivedAddrs == {disc.recvd[i].addr : i \in DOMAIN disc.recvd}

\* the plaintext of the first datagram received from an address
FirstFrom(a) ==
    LET first == CHOOSE i \in DOMAIN disc.recvd :
                    /\ disc.recvd[i].addr = a
                    /\ \A j \in 1..(i - 1) : disc.recvd[j].addr # a
    IN  decrypt(disc.recvd[first].bytes)

\* the receive loop has been entered
Listening == disc.pc = "recv" \/ disc.err # "none"

\* C14: the responses of a discovery hold exactly one entry for each address a
\* datagram was received from, and the entry is the first datagram of that
\* address; the devices discover() returns have the same addresses, each
\* classified from that first datagram.
C14_FirstResponsePerAddress ==
    disc.pc # "none" =>
        /\ DOMAIN disc.responses = ReceivedAddrs
        /\ \A a \in ReceivedAddrs : disc.responses[a] = FirstFrom(a)
        /\ disc.returned # NoValue /\ disc.returned.ok =>
                disc.returned.v = [a \in ReceivedAddrs |-> FirstFrom(a)]
        /\ disc.pc = "done" /\ disc.result.ok =>
                /\ DOMAIN disc.result.v = ReceivedAddrs
                /\ \A a \in ReceivedAddrs :
                        /\ FirstFrom(a) \in DOMAIN DiscoverMemo.doc.of
                        /\ Ok(disc.result.v[a]) = device_from(DiscoverMemo.doc.of[FirstFrom(a)])

\* a discovery that returned devices after an address answered twice with
\* different kinds of devices, and another address answered too
C14_Witness ==
    /\ disc.pc = "done"
    /\ disc.result.ok
    /\ Cardinality(ReceivedAddrs) = 2
    /\ \E i, j \in DOMAIN disc.recvd :
            /\ i < j
            /\ disc.recvd[i].addr = disc.recvd[j].addr
            /\ disc.result.v[disc.recvd[i].addr] = "Plug"
            /\ decrypt(disc.recvd[j].bytes) =
                    ToVec(Envelope("system", "get_sysinfo", JObj([mic_type |-> JStr("IOT.SMARTBULB")])))


\* a response is well formed when it is JSON with an object under
\* system.get_sysinfo
WellFormed(text) ==
    /\ text \in DOMAIN DiscoverMemo.doc.of
    /\ Get(Get(DiscoverMemo.doc.of[text], "system"), "get_sysinfo").t = "obj"

\* the sysinfo of a well-formed response
SysinfoOf(text) == Get(Get(DiscoverMemo.doc.of[text], "system"), "get_sysinfo")

\* the classification table of a sysinfo: the lowercased text of its type
\* indicator (type, else mic_type; none when neither is a string) looked up in
\* order
TableKind(sysinfo) ==
    LET indicator == IF Get(sysinfo, "type") # NoValue THEN Get(sysinfo, "type")
                     ELSE Get(sysinfo, "mic_type")
        text == IF indicator.t = "str" THEN to_lowercase(indicator.s) ELSE ""
    IN  IF StrContains(text, "plug") /\ Get(sysinfo, "children") # NoValue THEN "Strip"
        ELSE IF StrContains(text, "plug") THEN "Plug"
        ELSE IF StrContains(text, "bulb") THEN "Bulb"
        ELSE "Unknown"

\* C15: when every response of a discovery carries a sysinfo, discover() returns
\* for every address the kind the ordered table gives for its sysinfo: plug with
\* children is a strip, plug is a plug, bulb is a bulb, and anything else,
\* a sysinfo without a usable type indicator included, is Unknown.
C15_Original ==
    /\ disc.pc = "done"
    /\ disc.returned.ok
    /\ \A a \in DOMAIN disc.responses : WellFormed(disc.responses[a])
    => /\ disc.result.ok
       /\ \A a \in DOMAIN disc.responses :
            disc.result.v[a] = TableKind(SysinfoOf(disc.responses[a]))

\* C16: a response that is not JSON or has no system.get_sysinfo is skipped:
\* discover() returns Ok, and its devices are exactly the addresses with a
\* well-formed response, each classified from that response.
C16_Original ==
    disc.pc = "done" /\ disc.returned.ok =>
        /\ disc.result.ok
        /\ DOMAIN disc.result.v = {a \in DOMAIN disc.responses : WellFormed(disc.responses[a])}
        /\ \A a \in DOMAIN disc.result.v :
                Ok(disc.result.v[a]) = device_from(DiscoverMemo.doc.of[disc.responses[a]])


\* Proto::discover has returned, with Ok or with Err
ProtoReturned == disc.returned # NoValue

C18_ErrorsAbortTimeoutEnds ==
    /\ disc.pc = "done" /\ disc.err = "none" =>
            /\ disc.returned = Err("Io")
            /\ disc.result = Err("Io")
            /\ disc.recvd = <<>>
    /\ disc.err \notin {"none", "WouldBlock"} =>
            /\ disc.pc = "done"
            /\ disc.returned = Err("Io")
            /\ disc.result = Err("Io")
    /\ disc.err = "WouldBlock" =>
            /\ disc.returned = Ok(disc.responses)
            /\ DOMAIN disc.responses = ReceivedAddrs
            /\ disc.pc = "done" => disc.result # Err("Io")
            /\ disc.pc = "done" /\ disc.result # Panic =>
                    disc.result.ok /\ DOMAIN disc.result.v = ReceivedAddrs
            /\ disc.pc = "done" /\ disc.responses = <<>> => disc.result = Ok(<<>>)

\* a discovery that received a plug's answer and then a connection reset, and
\* so returned the error alone
C18_Witness ==
    /\ disc.pc = "done"
    /\ disc.err = "ConnectionReset"
    /\ disc.result = Err("Io")
    /\ \E a \in DOMAIN disc.responses : WellFormed(disc.responses[a])


\* C19: once discover() listens it has sent exactly 3 datagrams, each the
\* encrypted probe to 255.255.255.255 port 9999, and it sends nothing more
\* from then on, whatever the receives return.
C19_ProbesBeforeListening ==
    /\ [](Listening =>
            /\ Len(disc.sends) = 3
            /\ \A i \in DOMAIN disc.sends :
                    /\ disc.sends[i].to = <<255, 255, 255, 255>>
                    /\ disc.sends[i].port = 9999
                    /\ decrypt(disc.sends[i].bytes) = ToVec(DiscoverQuery))
    /\ [][Listening => disc'.sends = disc.sends]_vars

\* a discovery that is listening and has received a datagram
C19_Witness ==
    /\ disc.pc = "recv"
    /\ Len(disc.sends) = 3
    /\ Len(disc.recvd) > 0


(***************************************************************************)
(* Reboot and factory reset                                                *)
(***************************************************************************)
SysOps == {"reboot", "factory_reset"}

\* C20: a reboot or a factory reset on a handle with a cache clears the cache
\* before its one request: the request is made with no entry of any namespace
\* in the cache, the cache is empty when the call returns, whether the
\* exchange succeeded or failed, and a read that follows is not served from
\* the cache.
C20_ClearBeforeReboot ==
    /\ last.op \in SysOps =>
            /\ CountEvents(last.log, "request") = 1
            /\ \A i \in EventsOf(last.log, "request") :
                    /\ last.log[i].key \in {<<SystemNs(dev.kind), "reboot">>,
                                            <<SystemNs(dev.kind), "reset">>}
                    /\ last.log[i].cached = {}
                    /\ cache.on => \E j \in EventsOf(last.log, "clear") : j < i
            /\ cache.on => cache.store = {}
    /\ prev.op \in SysOps /\ cache.on =>
            \A i \in EventsOf(last.log, "get") : ~last.log[i].hit

\* a reboot or reset whose exchange failed after the clear had removed entries
\* of two namespaces
C20_Witness ==
    /\ last.op \in SysOps
    /\ cache.on
    /\ ~last.ok
    /\ \E i \in EventsOf(last.log, "clear") : last.log[i].removed = 2


(***************************************************************************)
(* The socket of an exchange                                               *)
(***************************************************************************)
\* what holds of the sockets: an exchange in progress has exactly one socket
\* open, its own, bound when the exchange began, and no socket is open once
\* send_bytes has returned, with Ok or with Err
SocketsReleased ==
    sock.pc # "none" =>
        /\ sock.pc = "idle" => sock.open = {}
        /\ sock.pc # "idle" => sock.open = {sock.port}

\* C23: every exchange has its own socket, no socket is open once the exchange
\* has returned, on any path, and the reply an exchange returns is a reply to
\* that exchange, never one to an earlier exchange that arrived late.
C23_Original ==
    /\ SocketsReleased
    /\ sock.pc = "idle" /\ sock.res # NoValue /\ sock.res.ok => sock.res.v = sock.n

\* the calls of one setter in a list of calls
CallsOf(calls, setter) == {i \in 1..Len(calls) : calls[i].setter = setter}

\* the argument of the last call of a setter
LastArg(calls, setter) ==
    calls[CHOOSE i \in CallsOf(calls, setter) : \A j \in CallsOf(calls, setter) : j <= i].arg

\* what a Config reports for a builder on which one setter was or was not called
Reports(calls, setter, got, default) ==
    IF CallsOf(calls, setter) = {} THEN got = default ELSE got = LastArg(calls, setter)

\* C28: a Config built from a host alone has port 9999, a buffer of 4096
\* bytes, read and write timeouts of 3 seconds and caching disabled
\* (cache_enabled() false, cache_ttl() absent); each default is reported when
\* its setter was never called, and for a setter that was called build()
\* reports the value of its last call.
C28_BuilderDefaults ==
    conf.pc = "builder" /\ conf.built.some =>
        LET config == conf.built.v.config
            calls == conf.built.v.calls
        IN  /\ Reports(calls, "with_port", ConfigPort(config), 9999)
            /\ Reports(calls, "with_buffer_size", ConfigBufferSize(config), 4096)
            /\ Reports(calls, "with_read_timeout", ConfigReadTimeout(config), 3)
            /\ Reports(calls, "with_write_timeout", ConfigWriteTimeout(config), 3)
            /\ IF CallsOf(calls, "with_cache_enabled") = {}
               THEN /\ ConfigCacheEnabled(config) = FALSE
                    /\ ConfigCacheTtl(config) = None
                    /\ ConfigCacheInitialCapacity(config) = None
               ELSE /\ ConfigCacheEnabled(config) = TRUE
                    /\ ConfigCacheTtl(config) = Some(LastArg(calls, "with_cache_enabled").ttl)
                    /\ ConfigCacheInitialCapacity(config)
                           = LastArg(calls, "with_cache_enabled").initial_capacity
            /\ config.addr.ip = conf.host

\* a Config has been built after with_port was called twice with two ports
\* and with_read_timeout once: it reports the second port, the read timeout
\* set and the defaults of the rest
C28_Witness ==
    /\ conf.pc = "builder"
    /\ conf.built.some
    /\ Len(conf.built.v.calls) = 3
    /\ conf.built.v.calls[1] = [setter |-> "with_port", arg |-> 9999]
    /\ conf.built.v.calls[2].setter = "with_read_timeout"
    /\ conf.built.v.calls[3] = [setter |-> "with_port", arg |-> 8080]
    /\ ConfigPort(conf.built.v.config) = 8080
    /\ ConfigWriteTimeout(conf.built.v.config) = 3
    /\ ConfigBufferSize(conf.built.v.config) = 4096
    /\ ~ConfigCacheEnabled(conf.built.v.config)

\* the entry a hit was answered from
HitEntry == CHOOSE e \in Entries(cache, last.key) : TRUE

\* C29: every value a read through the cache returns as a hit was stored less
\* than the TTL before the call, and was stored only after the exchange that
\* fetched it had returned: no read returns data that was stored TTL or more
\* earlier, and the data were received no later than they were stored.
C29_StoredWithinTtl ==
    last.op = "hit" /\ last.t = now =>
        /\ Entries(cache, last.key) # {}
        /\ HitEntry.val = last.res.v
        /\ now - HitEntry.at < cache.ttl
        /\ ReceivedAt(last.res.v) <= HitEntry.at

\* a hit has returned a reading that was stored after the clock had moved on
\* from its receipt
C29_Witness ==
    /\ last.op = "hit"
    /\ last.t = now
    /\ Entries(cache, last.key) # {}
    /\ ReceivedAt(last.res.v) < HitEntry.at
    /\ now - HitEntry.at < cache.ttl

\* C29 as stated: no read returns data that were received from the device
\* TTL or more earlier
C29_Original ==
    last.op = "hit" /\ last.t = now => now - ReceivedAt(last.res.v) < cache.ttl

\* C30: set_color_temp returns a Result for every model the device can report;
\* it does not panic for a bulb that reports is_variable_color_temp = 1 and
\* whose model contains neither "LB120" nor "LB130".
C30_Original == last.op = "set_color_temp" => last.res # Panic

\* where set_color_temp returns at all, it returns Ok or one of the errors of
\* the exchange and of the checks
SetColorTempResults ==
    last.op = "set_color_temp" /\ last.res # Panic =>
        \/ last.res.ok
        \/ last.res.err \in {"InvalidParameter", "UnsupportedOperation", "Io", "Json"}

\* the capability a guarded call of a bulb asks for, as the bulb reports it
CapabilityOf(op) ==
    CASE op \in {"set_hsv", "set_hue", "set_saturation"} -> BulbIsColor(dev.model) = 1
      [] op = "set_color_temp" -> BulbIsVariableColorTemp(dev.model) = 1
      [] OTHER -> TRUE

\* the value of the call lies in the range of the method
InRangeOf(op, arg) ==
    CASE op = "set_hsv" -> arg[1] \in 0..360 /\ arg[2] \in 0..100 /\ arg[3] \in 0..100
      [] op = "set_hue" -> arg \in 0..360
      [] op \in {"set_saturation", "set_brightness"} -> arg \in 0..100
      [] op = "set_color_temp" ->
            \/ dev.model = "LB120" /\ arg \in 2700..6500
            \/ dev.model = "LB130" /\ arg \in 2500..9000
      [] OTHER -> arg \in 1..12

GuardedOps ==
    {"set_hsv", "set_hue", "set_saturation", "set_brightness", "set_color_temp",
     "get_emeter_day_stats"}

\* the call got the sysinfo it asked for
GotSysinfo == last.res.ok \/ last.res.err \notin {"Io", "Json"}

\* C31: a bulb setter (or get_emeter_day_stats) called on a device lacking the
\* capability returns UnsupportedOperation, and called with a value out of range
\* on a capable device returns InvalidParameter; in both cases the only request
\* the call can make is the get_sysinfo of its capability check, and it
\* invalidates nothing. The capability check comes first.
C31_RejectedWithoutSending ==
    (last.op \in GuardedOps /\ ~(CapabilityOf(last.op) /\ InRangeOf(last.op, last.arg))) =>
        /\ \A i \in EventsOf(last.log, "request") : last.log[i].key[2] = "get_sysinfo"
        /\ EventsOf(last.log, "retain") = {}
        /\ GotSysinfo =>
              last.res = IF CapabilityOf(last.op) THEN Err("InvalidParameter")
                         ELSE Err("UnsupportedOperation")

\* set_hue(361) on a colour bulb was refused with InvalidParameter on the
\* sysinfo of the cache: nothing was sent and the entry is still there
C31_Witness ==
    /\ last.op = "set_hue"
    /\ last.arg = 361
    /\ dev.model = "LB130"
    /\ last.res = Err("InvalidParameter")
    /\ EventsOf(last.log, "request") = {}
    /\ cache.on
    /\ cache.store # {}

\* C32: what an exchange returns was carried by a datagram of the configured
\* (host, port), a reply of the device to one of the exchanges, never by a
\* datagram another address sent to the port of the call.
C32_Original ==
    sock.pc = "idle" /\ sock.res # NoValue /\ sock.res.ok => sock.res.v \in 1..MaxExchanges

\* the last call received a reply longer than the buffer of its Proto
ReplyTruncated ==
    /\ last.op \in ExecuteOps
    /\ Len(last.net) = 1
    /\ last.net[1] = "ok"
    /\ Len(dev.reply) > ConfigBufferSize(ConfigOf(conf))

\* C33: a call that receives a reply longer than the configured buffer returns
\* an error, the Json error of the text cut to the buffer's size, and stores
\* nothing in the cache.
C33_TruncatedReplyIsError ==
    ReplyTruncated =>
        /\ last.res = Err("Json")
        /\ EventsOf(last.log, "insert") = {}

\* a read through the cache received a reply of two namespaces, seven bytes of
\* which fit no buffer of 20, found it unreadable and left the cache empty
C33_Witness ==
    /\ ReplyTruncated
    /\ last.op = "execute_read"
    /\ ConfigBufferSize(ConfigOf(conf)) = 20
    /\ Len(dev.reply) >= 27
    /\ cache.on
    /\ cache.store = {}
    /\ last.res = Err("Json")

\* the calls that are one read command of a command module: is_on of a bulb
\* (get_light_state), get_timer_rules (get_rules), get_cloud_info (get_info)
DirectRead ==
    \/ last.op \in {"get_timer_rules", "get_cloud_info"}
    \/ last.op = "is_on" /\ dev.kind = "bulb"

\* the call read no sysinfo
NoSysinfoRead ==
    \A i \in EventsOf(last.log, "request") : last.log[i].key[2] # "get_sysinfo"

UncachedReads == {"time", "timezone", "get_scan_info"}

\* C35: a call of time(), timezone() or get_scan_info() makes one exchange,
\* looks nothing up and leaves the cache as it was, with its entries and its
\* counts of hits and misses, whether the call succeeds or fails.
C35_TimeReadsBypassCache ==
    [][(last'.n = last.n + 1 /\ last'.op \in UncachedReads) =>
          /\ cache' = cache
          /\ \A i \in 1..Len(last'.log) : last'.log[i].e = "request"
          /\ Cardinality(EventsOf(last'.log, "request")) = 1]_vars

\* time() succeeded on a handle whose cache holds a response and has counted
\* a miss, right after a call of time() that failed
C35_Witness ==
    /\ last.op = "time" /\ last.ok
    /\ prev.op = "time" /\ ~prev.ok
    /\ cache.on
    /\ cache.store # {}
    /\ CacheMisses(cache) # <<0, 0>>

\* the counter b is the counter a and one more
OneMore(a, b) == a # U32Max /\ b = wrapping_inc(a)

\* C36 as stated: every lookup, a get or a get_or_insert_with, adds one to
\* exactly one of hits() and misses() and leaves the other as it was.
C36_Original ==
    [][\A key \in KeySample :
          (DoGet(key) \/ \E fres \in ProducerResults : DoGetOrInsertWith(key, fres)) =>
              \/ OneMore(CacheHits(cache), CacheHits(cache')) /\ CacheMisses(cache') = CacheMisses(cache)
              \/ OneMore(CacheMisses(cache), CacheMisses(cache')) /\ CacheHits(cache') = CacheHits(cache)
      ]_vars

\* C37: an entry leaves the store only by a lookup of its own key that finds it
\* at or past the TTL, by a remove of its key, by a retain or by a clear; the
\* passing of time removes nothing, and a lookup of one key leaves the entry of
\* every other key in the store as it was.
C37_LazyExpiry ==
    [][/\ \A e \in cache.store :
              Entries(cache', e.key) = {} =>
                  \/ /\ last'.op \in {"get", "get_or_insert_with"}
                     /\ KeyMatch(e.key, last'.key)
                     /\ Elapsed(e.at, now) >= cache.ttl
                  \/ last'.op = "remove" /\ KeyMatch(e.key, last'.key)
                  \/ last'.op \in {"retain", "clear"}
       /\ \A key \in KeySample :
              (DoGet(key) \/ \E fres \in ProducerResults : DoGetOrInsertWith(key, fres)) =>
                  \A e \in cache.store : ~KeyMatch(e.key, key) => e \in cache'.store
       /\ now' # now => cache' = cache
      ]_vars

\* a get of one key returned while the entry of another key, which has reached
\* the TTL, is in the store and counted by len()
C37_Witness ==
    /\ last.op = "get"
    /\ cache.ttl > 0
    /\ \E e \in cache.store : ~KeyMatch(e.key, last.key) /\ Elapsed(e.at, now) >= cache.ttl
    /\ CacheLen(cache) = last.len0
    /\ CacheLen(cache) >= 1

\* the rule list get_timer_rules returns when it returns one: the list of a
\* fresh cache entry, else the list of the device
ListedEmpty ==
    LET request == Request(TIMER_NS, "get_rules", NoValue)
    IN  IF cache.on /\ CacheStatus(cache, request, now) = "Found"
        THEN \A e \in Entries(cache, request) : Len(e.val.m["rule_list"].a) = 0
        ELSE dev.rules = 0

\* the exchanges of add_rule a call made
AddRuleSent(log) == {i \in EventsOf(log, "request") : log[i].key[2] = "add_rule"}

\* C38: add_timer_rule sends add_rule only when the rule list it read, from the
\* cache or from the device, is empty; on a list that is not empty it returns
\* UnsupportedOperation, or the error of the read, sends no add_rule and takes
\* no invalidation step.
C38_AddRuleOnlyWhenEmpty ==
    [][(last'.n = last.n + 1 /\ last'.op = "add_timer_rule") =>
          /\ AddRuleSent(last'.log) # {} => ListedEmpty
          /\ ~ListedEmpty =>
                /\ AddRuleSent(last'.log) = {}
                /\ EventsOf(last'.log, "retain") = {}
                /\ last'.res \in {Err("UnsupportedOperation"), Err("Io")}
                /\ AnsweredFromCache(last'.log) \/ last'.net = <<"ok">> =>
                       last'.res = Err("UnsupportedOperation")
      ]_vars

\* add_timer_rule found the rule of the device in the cache and returned
\* UnsupportedOperation without an exchange, the entry still in the cache
C38_Witness ==
    /\ last.op = "add_timer_rule"
    /\ last.res = Err("UnsupportedOperation")
    /\ AnsweredFromCache(last.log)
    /\ EventsOf(last.log, "request") = {}
    /\ dev.rules = 1
    /\ cache.on /\ ~ListedEmpty

\* C39: in a Config the builder has built, cache_enabled() is true exactly
\* when cache_ttl() is present, cache_initial_capacity() is present only when
\* the cache is enabled, and the handle built from the Config gets its cache
\* without a failing unwrap of the TTL.
C39_CacheConfigConsistent ==
    conf.built.some =>
        /\ ConfigCacheEnabled(ConfigOf(conf)) <=> ConfigCacheTtl(ConfigOf(conf)).some
        /\ ConfigCacheInitialCapacity(ConfigOf(conf)).some => ConfigCacheEnabled(ConfigOf(conf))
        /\ HandleCache(ConfigOf(conf)) # Panic

\* a Config built after with_cache_enabled(1 s, Some(2048)): the handle gets a
\* cache of that TTL
C39_Witness ==
    /\ conf.built.some
    /\ ConfigCacheEnabled(ConfigOf(conf))
    /\ ConfigCacheInitialCapacity(ConfigOf(conf)) = Some(2048)
    /\ HandleCache(ConfigOf(conf)) = with_ttl(1)

\* the sysinfo of the response that was classified
Classified == disc.value.m["system"].m["get_sysinfo"]

\* the indicators that hold "plug", and those that hold "bulb", in any case
PlugIndicators == {JStr("IOT.SMARTPLUGSWITCH"), JStr("iot.smartplugswitch")}
BulbIndicators == {JStr("IOT.SMARTBULB"), JStr("Iot.SmartBulb")}

\* the kinds an indicator stands for
KindsOf(indicator) ==
    IF indicator \in PlugIndicators THEN {"Plug", "Strip"}
    ELSE IF indicator \in BulbIndicators THEN {"Bulb"}
    ELSE {"Unknown"}

\* C40: the kind of a response is read from type whenever the sysinfo holds
\* type, and from mic_type only when it holds no type; an indicator that holds
\* "plug" or "bulb" in upper, lower or mixed case gives a plug (a strip with
\* children) or a bulb, any other indicator Unknown.
C40_TypeBeforeMicType ==
    (disc.pc = "classified" /\ Classified.m # <<>> /\ DOMAIN Classified.m # {"children"}) =>
        /\ disc.result.ok
        /\ "type" \in DOMAIN Classified.m => disc.result.v \in KindsOf(Classified.m["type"])
        /\ "type" \notin DOMAIN Classified.m => disc.result.v \in KindsOf(Classified.m["mic_type"])
        /\ disc.result.v = "Strip" <=>
              /\ "children" \in DOMAIN Classified.m
              /\ "Plug" \in KindsOf(IF "type" \in DOMAIN Classified.m
                                    THEN Classified.m["type"]
                                    ELSE Classified.m["mic_type"])

\* a sysinfo whose type says bulb in mixed case and whose mic_type says plug
\* was classified a bulb
C40_Witness ==
    /\ disc.pc = "classified"
    /\ "type" \in DOMAIN Classified.m /\ Classified.m["type"] = JStr("Iot.SmartBulb")
    /\ "mic_type" \in DOMAIN Classified.m /\ Classified.m["mic_type"] = JStr("IOT.SMARTPLUGSWITCH")
    /\ disc.result = Ok("Bulb")
====
